---------------------------- MODULE Spec2Model ----------------------------
(***************************************************************************)
(* Financial simulation core of the advisory backend.                      *)
(*                                                                         *)
(*   backend/debt_management/debt_calculators.py   DebtCalculator          *)
(*   backend/retirement/retirement_calculators.py  RetirementCalculator    *)
(*   backend/tagger/estimators.py                  EstimatorIntegration    *)
(*                                                                         *)
(* Money is a Python float in the source.  The model draws its inputs from *)
(* integers on which every product and quotient the code computes is an    *)
(* integer, so the integer arithmetic below is the float arithmetic of the *)
(* source on these inputs, step for step: an interest rate of 1200 (% per  *)
(* year) is a monthly rate of 1200 / 100 / 12 = 1, and only debts with a   *)
(* zero balance, which never accrue interest, carry other rates.           *)
(***************************************************************************)
EXTENDS Integers, Sequences, FiniteSets, TLC

VARIABLES
    debts,              \* compare_strategies argument: list of debt dicts
    monthly_payment,    \* compare_strategies argument
    pc,                 \* position inside compare_strategies
    strategy,           \* which simulation is running: "avalanche" / "snowball"
    sorted_debts,       \* local of the running simulation
    remaining_balance,  \* local: name -> balance
    total_interest,     \* local
    current_month,      \* local
    available_payment,  \* local (value left by the last executed month phase)
    payoff_plan,        \* local: list of payoff entries
    avalanche,          \* compare_strategies local: result of the first call
    snowball,           \* compare_strategies local: result of the second call
    comparison,         \* value returned by compare_strategies
    horizon,            \* number of simulated months the exploration follows
    ledger,             \* history of the running simulation: what the two for
                        \* loops of the month under way did, debt by debt
    portfolio_data,     \* argument of the portfolio functions
    portfolio_value,    \* RetirementCalculator.calculate_portfolio_value result
    estimator_value,    \* EstimatorIntegration.calculate_portfolio_value result
    allocation,         \* RetirementCalculator.calculate_asset_allocation result
    args,               \* arguments of the calculator call under way
    result,             \* value it returns, or the exception it raises
    readiness,          \* locals of calculate_retirement_readiness
    mc,                 \* locals of run_monte_carlo_simulation
    threads,            \* concurrent Monte Carlo calls: their arguments and locals
    rng                 \* state of the generator behind the random module

debtVars == <<debts, monthly_payment, strategy, sorted_debts, remaining_balance,
              total_interest, current_month, available_payment, payoff_plan,
              avalanche, snowball, comparison, horizon, ledger>>

portfolioVars == <<portfolio_data, portfolio_value, estimator_value, allocation>>

retirementVars == <<args, result, readiness, mc, threads, rng>>

vars == <<pc, debtVars, portfolioVars, retirementVars>>

-----------------------------------------------------------------------------
(* Bounds of the explored inputs.                                          *)

MaxBalance == 2
MaxMinimum == 2
MaxPayment == 3
MaxMonths == 6

\* Names of the debts of a debt set (unique within the set), by list position.
DebtNames == <<"A", "B", "C">>

\* Annual interest rates in percent.  1200 % is a monthly rate of exactly 1.
RateChoices == {0, 3, 4, 1200}

\* A debt that can accrue interest has a rate whose monthly value is an
\* integer; a debt with nothing owed lists no minimum payment.
DebtAttrs ==
    {a \in [balance : 0..MaxBalance, interest_rate : RateChoices,
            minimum_payment : 0..MaxMinimum] :
        IF a.balance > 0 THEN a.interest_rate % 1200 = 0
        ELSE a.minimum_payment = 0}

PaymentChoices == 0..MaxPayment

None == [strategy |-> "none"]

\* No retirement calculator call is under way.
RetirementIdle ==
    /\ args = None
    /\ result = None
    /\ readiness = None
    /\ mc = None
    /\ threads = None
    /\ rng = 0

Min(a, b) == IF a <= b THEN a ELSE b

-----------------------------------------------------------------------------
(* sorted(debts, key=..., reverse=...): Python's sort is stable, and with  *)
(* reverse=True elements with equal keys keep their original order.        *)

\* Insert d into the sorted list s behind every element that may not follow it.
RECURSIVE InsertSorted(_, _, _, _)
InsertSorted(s, d, key, reverse) ==
    IF s = <<>> THEN <<d>>
    ELSE LET h == Head(s)
             dFirst == IF reverse THEN d[key] > h[key] ELSE d[key] < h[key]
         IN  IF dFirst THEN <<d>> \o s
             ELSE <<h>> \o InsertSorted(Tail(s), d, key, reverse)

\* sorted(s, key=lambda x: x.get(key, 0), reverse=reverse)
RECURSIVE SortedBy(_, _, _)
SortedBy(s, key, reverse) ==
    IF s = <<>> THEN <<>>
    ELSE InsertSorted(SortedBy(SubSeq(s, 1, Len(s) - 1), key, reverse),
                      s[Len(s)], key, reverse)

\* Mutant: the reverse=True argument is lost.
AvalancheOrderAscending(ds) == SortedBy(ds, "interest_rate", FALSE)

AvalancheOrder(ds) == SortedBy(ds, "interest_rate", TRUE)

\* Mutant: the snowball sort takes the largest balance first.
SnowballOrderDescending(ds) == SortedBy(ds, "balance", TRUE)

SnowballOrder(ds) == SortedBy(ds, "balance", FALSE)

SortedFor(strat, ds) ==
    IF strat = "avalanche" THEN AvalancheOrder(ds) ELSE SnowballOrder(ds)

NamesOf(ds) == {ds[i].name : i \in 1..Len(ds)}

InitialBalances(ds) ==
    [n \in NamesOf(ds) |->
        LET i == CHOOSE j \in 1..Len(ds) :
                    ds[j].name = n /\ \A k \in (j + 1)..Len(ds) : ds[k].name # n
        IN  ds[i].balance]

AnyBalanceLeft(rb) == \E n \in DOMAIN rb : rb[n] > 0

-----------------------------------------------------------------------------
(* One simulated month on the locals                                       *)
(*   loc = [remaining_balance, available_payment, total_interest,          *)
(*          payoff_plan, current_month].                                   *)

\* The history of a run: the iterations of the two for loops in the month
\* under way (the locals each found, the interest it added and the payment it
\* applied), the payments applied since the run began, and whether a month
\* of the run had budget left after its minimum payments.
NoLedger == [events |-> <<>>, paid |-> 0, surplus |-> FALSE]

Logged(history, loop, position, loc, interest, payment) ==
    [history EXCEPT
        !.events = Append(@, [loop |-> loop,
                              position |-> position,
                              remaining_balance |-> loc.remaining_balance,
                              available_payment |-> loc.available_payment,
                              interest |-> interest,
                              payment |-> payment]),
        !.paid = @ + payment]

\* "Pay minimums on all debts": the first for loop, from position i on.
RECURSIVE MinimumsFrom(_, _, _)
MinimumsFrom(sd, i, loc) ==
    IF i > Len(sd) THEN loc
    ELSE LET name == sd[i].name
             bal == loc.remaining_balance[name]
         IN  IF bal > 0
             THEN LET payment == Min(sd[i].minimum_payment, bal)
                  IN  MinimumsFrom(sd, i + 1,
                        [loc EXCEPT !.remaining_balance[name] = bal - payment,
                                    !.available_payment = @ - payment,
                                    !.ledger = Logged(@, "minimum", i, loc, 0, payment)])
             ELSE MinimumsFrom(sd, i + 1,
                        [loc EXCEPT !.ledger = Logged(@, "minimum", i, loc, 0, 0)])

\* interest = remaining_balance[name] * (interest_rate / 100 / 12)
Interest(bal, rate) == (bal * rate) \div 1200

RECURSIVE ExtraFrom(_, _, _)

\* Mutant: a debt reached with a leftover of exactly 0 still accrues interest.
ExtraFromZeroLeftover(sd, i, loc) ==
    IF i > Len(sd) THEN loc
    ELSE LET name == sd[i].name
             bal == loc.remaining_balance[name]
         IN  IF bal > 0 /\ loc.available_payment >= 0
             THEN LET interest == Interest(bal, sd[i].interest_rate)
                      owed == bal + interest
                      extra_payment == Min(loc.available_payment, owed)
                      left == owed - extra_payment
                      \* no entry of payoff_plan has an "interest_paid" key,
                      \* so the sum added to debt["balance"] is 0
                      entry == [debt |-> name,
                                month_paid_off |-> loc.current_month,
                                total_paid |-> sd[i].balance + 0]
                  IN  ExtraFrom(sd, i + 1,
                        [loc EXCEPT
                           !.total_interest = @ + interest,
                           !.remaining_balance[name] = left,
                           !.available_payment = @ - extra_payment,
                           !.payoff_plan = IF left <= 0 THEN Append(@, entry)
                                           ELSE @,
                           !.ledger = Logged(@, "extra", i, loc, interest,
                                             extra_payment)])
             ELSE ExtraFrom(sd, i + 1,
                        [loc EXCEPT !.ledger = Logged(@, "extra", i, loc, 0, 0)])

\* Mutant: a debt takes half of the leftover at most, the rest moves on.
ExtraFromHalfLeftover(sd, i, loc) ==
    IF i > Len(sd) THEN loc
    ELSE LET name == sd[i].name
             bal == loc.remaining_balance[name]
         IN  IF bal > 0 /\ loc.available_payment > 0
             THEN LET interest == Interest(bal, sd[i].interest_rate)
                      owed == bal + interest
                      extra_payment == Min((loc.available_payment + 1) \div 2, owed)
                      left == owed - extra_payment
                      \* no entry of payoff_plan has an "interest_paid" key,
                      \* so the sum added to debt["balance"] is 0
                      entry == [debt |-> name,
                                month_paid_off |-> loc.current_month,
                                total_paid |-> sd[i].balance + 0]
                  IN  ExtraFrom(sd, i + 1,
                        [loc EXCEPT
                           !.total_interest = @ + interest,
                           !.remaining_balance[name] = left,
                           !.available_payment = @ - extra_payment,
                           !.payoff_plan = IF left <= 0 THEN Append(@, entry)
                                           ELSE @,
                           !.ledger = Logged(@, "extra", i, loc, interest,
                                             extra_payment)])
             ELSE ExtraFrom(sd, i + 1,
                        [loc EXCEPT !.ledger = Logged(@, "extra", i, loc, 0, 0)])

\* Mutant: the interest is counted in total_interest but never charged.
ExtraFromInterestUncharged(sd, i, loc) ==
    IF i > Len(sd) THEN loc
    ELSE LET name == sd[i].name
             bal == loc.remaining_balance[name]
         IN  IF bal > 0 /\ loc.available_payment > 0
             THEN LET interest == Interest(bal, sd[i].interest_rate)
                      owed == bal
                      extra_payment == Min(loc.available_payment, owed)
                      left == owed - extra_payment
                      \* no entry of payoff_plan has an "interest_paid" key,
                      \* so the sum added to debt["balance"] is 0
                      entry == [debt |-> name,
                                month_paid_off |-> loc.current_month,
                                total_paid |-> sd[i].balance + 0]
                  IN  ExtraFrom(sd, i + 1,
                        [loc EXCEPT
                           !.total_interest = @ + interest,
                           !.remaining_balance[name] = left,
                           !.available_payment = @ - extra_payment,
                           !.payoff_plan = IF left <= 0 THEN Append(@, entry)
                                           ELSE @,
                           !.ledger = Logged(@, "extra", i, loc, interest,
                                             extra_payment)])
             ELSE ExtraFrom(sd, i + 1,
                        [loc EXCEPT !.ledger = Logged(@, "extra", i, loc, 0, 0)])

\* "Apply extra": the second for loop, from position i on.
ExtraFrom(sd, i, loc) ==
    IF i > Len(sd) THEN loc
    ELSE LET name == sd[i].name
             bal == loc.remaining_balance[name]
         IN  IF bal > 0 /\ loc.available_payment > 0
             THEN LET interest == Interest(bal, sd[i].interest_rate)
                      owed == bal + interest
                      extra_payment == Min(loc.available_payment, owed)
                      left == owed - extra_payment
                      \* no entry of payoff_plan has an "interest_paid" key,
                      \* so the sum added to debt["balance"] is 0
                      entry == [debt |-> name,
                                month_paid_off |-> loc.current_month,
                                total_paid |-> sd[i].balance + 0]
                  IN  ExtraFrom(sd, i + 1,
                        [loc EXCEPT
                           !.total_interest = @ + interest,
                           !.remaining_balance[name] = left,
                           !.available_payment = @ - extra_payment,
                           !.payoff_plan = IF left <= 0 THEN Append(@, entry)
                                           ELSE @,
                           !.ledger = Logged(@, "extra", i, loc, interest,
                                             extra_payment)])
             ELSE ExtraFrom(sd, i + 1,
                        [loc EXCEPT !.ledger = Logged(@, "extra", i, loc, 0, 0)])

\* The locals before the while loop.
StartLocals(ds) ==
    [remaining_balance |-> InitialBalances(ds),
     available_payment |-> 0,
     total_interest |-> 0,
     payoff_plan |-> <<>>,
     current_month |-> 0,
     ledger |-> NoLedger]

\* current_month += 1; available_payment = monthly_payment; first for loop.
MinimumsPhase(sd, p, loc) ==
    MinimumsFrom(sd, 1, [loc EXCEPT !.current_month = @ + 1,
                                    !.available_payment = p,
                                    !.ledger.events = <<>>])

ExtraPhase(sd, loc) ==
    ExtraFrom(sd, 1, [loc EXCEPT !.ledger.surplus = @ \/ loc.available_payment > 0])

SumBalances(ds) ==
    LET RECURSIVE Sum(_)
        Sum(i) == IF i > Len(ds) THEN 0 ELSE ds[i].balance + Sum(i + 1)
    IN  Sum(1)

\* Mutant: total_paid leaves the interest out.
TotalPaidWithoutInterest(ds, interest) == SumBalances(ds)

\* The dictionary a simulation returns.
TotalPaid(ds, interest) == SumBalances(ds) + interest

PayoffOrder(sd) == [i \in 1..Len(sd) |-> sd[i].name]

ResultOf(strat, ds, sd, loc) ==
    [strategy |-> IF strat = "avalanche" THEN "debt_avalanche" ELSE "debt_snowball",
     payoff_order |-> PayoffOrder(sd),
     total_interest |-> loc.total_interest,
     months_to_payoff |-> loc.current_month,
     total_paid |-> TotalPaid(ds, loc.total_interest),
     payoff_plan |-> loc.payoff_plan]

\* A whole simulation as a function of its arguments, followed for at most
\* `fuel` months; None when the loop is still running after them.
RECURSIVE RunFrom(_, _, _, _, _, _)
RunFrom(strat, ds, sd, p, loc, fuel) ==
    IF ~AnyBalanceLeft(loc.remaining_balance) THEN ResultOf(strat, ds, sd, loc)
    ELSE IF fuel = 0 THEN None
    ELSE RunFrom(strat, ds, sd, p, ExtraPhase(sd, MinimumsPhase(sd, p, loc)), fuel - 1)

Run(strat, ds, p, fuel) ==
    RunFrom(strat, ds, SortedFor(strat, ds), p, StartLocals(ds), fuel)

-----------------------------------------------------------------------------
(* compare_strategies                                                      *)

RECURSIVE MaxRate(_)
MaxRate(ds) ==
    IF Len(ds) = 1 THEN ds[1].interest_rate
    ELSE LET m == MaxRate(Tail(ds))
         IN  IF ds[1].interest_rate >= m THEN ds[1].interest_rate ELSE m

RECURSIVE MinRate(_)
MinRate(ds) ==
    IF Len(ds) = 1 THEN ds[1].interest_rate
    ELSE LET m == MinRate(Tail(ds))
         IN  IF ds[1].interest_rate <= m THEN ds[1].interest_rate ELSE m

InterestSpread(ds) == MaxRate(ds) - MinRate(ds)

\* Mutant: the threshold comparison is not strict.
RecommendedAtThreshold(ds) ==
    IF InterestSpread(ds) >= 3 THEN "avalanche" ELSE "snowball"

Recommended(ds) == IF InterestSpread(ds) > 3 THEN "avalanche" ELSE "snowball"

Comparison(ds, av, sn) ==
    [avalanche |-> av,
     snowball |-> sn,
     interest_savings |-> sn.total_interest - av.total_interest,
     time_difference |-> sn.months_to_payoff - av.months_to_payoff,
     recommended_strategy |-> Recommended(ds)]

-----------------------------------------------------------------------------
(* The state machine of one compare_strategies call.                       *)

Locals ==
    [remaining_balance |-> remaining_balance,
     available_payment |-> available_payment,
     total_interest |-> total_interest,
     payoff_plan |-> payoff_plan,
     current_month |-> current_month,
     ledger |-> ledger]

SetLocals(loc) ==
    /\ remaining_balance' = loc.remaining_balance
    /\ available_payment' = loc.available_payment
    /\ total_interest' = loc.total_interest
    /\ payoff_plan' = loc.payoff_plan
    /\ current_month' = loc.current_month
    /\ ledger' = loc.ledger

DebtList(attrs) ==
    [i \in 1..Len(attrs) |->
        [name |-> DebtNames[i],
         balance |-> attrs[i].balance,
         interest_rate |-> attrs[i].interest_rate,
         minimum_payment |-> attrs[i].minimum_payment]]

InitCall(ds, p, h) ==
    /\ debts = ds
    /\ monthly_payment = p
    /\ horizon = h
    /\ pc = "call_avalanche"
    /\ strategy = "avalanche"
    /\ sorted_debts = <<>>
    /\ remaining_balance = <<>>
    /\ available_payment = 0
    /\ total_interest = 0
    /\ payoff_plan = <<>>
    /\ current_month = 0
    /\ ledger = NoLedger
    /\ avalanche = None
    /\ snowball = None
    /\ comparison = None
    /\ portfolio_data = None
    /\ portfolio_value = None
    /\ estimator_value = None
    /\ allocation = None
    /\ RetirementIdle

Init ==
    \E n \in 0..Len(DebtNames) : \E attrs \in [1..n -> DebtAttrs] :
        \E p \in PaymentChoices : InitCall(DebtList(attrs), p, MaxMonths)

\* Entry of calculate_debt_avalanche / calculate_debt_snowball: sort, locals.
StartSimulation(strat) ==
    /\ pc = (IF strat = "avalanche" THEN "call_avalanche" ELSE "call_snowball")
    /\ strategy' = strat
    /\ sorted_debts' = SortedFor(strat, debts)
    /\ SetLocals(StartLocals(debts))
    /\ pc' = "while"
    /\ UNCHANGED <<debts, monthly_payment, avalanche, snowball, comparison, horizon,
                   portfolioVars, retirementVars>>

StartAvalanche == StartSimulation("avalanche")

StartSnowball == StartSimulation("snowball")

\* Mutant: the balances are kept in the debt dicts of the caller's list.
CallerDebtsWrittenThrough(ds, loc) ==
    [i \in 1..Len(ds) |-> [ds[i] EXCEPT !.balance = loc.remaining_balance[ds[i].name]]]

\* The caller's list after a for loop that left the locals loc: the loops
\* assign to remaining_balance[name], available_payment, total_interest and
\* payoff_plan, never to a debt dict or to the list.
CallerDebts(ds, loc) == ds

\* while any(balance > 0 ...): current_month += 1, the minimum payments.
PayMinimums ==
    /\ pc = "while"
    /\ AnyBalanceLeft(remaining_balance)
    /\ current_month < horizon
    /\ SetLocals(MinimumsPhase(sorted_debts, monthly_payment, Locals))
    /\ debts' = CallerDebts(debts, MinimumsPhase(sorted_debts, monthly_payment, Locals))
    /\ pc' = "extra"
    /\ UNCHANGED <<monthly_payment, strategy, sorted_debts, avalanche,
                   snowball, comparison, horizon,
                   portfolioVars, retirementVars>>

\* The second for loop of the month: interest and extra payments.
ApplyExtra ==
    /\ pc = "extra"
    /\ SetLocals(ExtraPhase(sorted_debts, Locals))
    /\ debts' = CallerDebts(debts, ExtraPhase(sorted_debts, Locals))
    /\ pc' = "while"
    /\ UNCHANGED <<monthly_payment, strategy, sorted_debts, avalanche,
                   snowball, comparison, horizon,
                   portfolioVars, retirementVars>>

\* The loop condition is false: build and return the result dictionary.
ReturnAvalanche ==
    /\ pc = "while"
    /\ strategy = "avalanche"
    /\ ~AnyBalanceLeft(remaining_balance)
    /\ avalanche' = ResultOf("avalanche", debts, sorted_debts, Locals)
    /\ pc' = "call_snowball"
    /\ UNCHANGED <<debts, monthly_payment, strategy, sorted_debts, remaining_balance,
                   total_interest, current_month, available_payment, payoff_plan,
                   ledger,
                   snowball, comparison, horizon,
                   portfolioVars, retirementVars>>

ReturnSnowball ==
    /\ pc = "while"
    /\ strategy = "snowball"
    /\ ~AnyBalanceLeft(remaining_balance)
    /\ snowball' = ResultOf("snowball", debts, sorted_debts, Locals)
    /\ pc' = "recommend"
    /\ UNCHANGED <<debts, monthly_payment, strategy, sorted_debts, remaining_balance,
                   total_interest, current_month, available_payment, payoff_plan,
                   ledger,
                   avalanche, comparison, horizon,
                   portfolioVars, retirementVars>>

\* Lines 178-200: differences, recommendation, returned dictionary.
Recommend ==
    /\ pc = "recommend"
    /\ Len(debts) > 0
    /\ comparison' = Comparison(debts, avalanche, snowball)
    /\ pc' = "done"
    /\ UNCHANGED <<debts, monthly_payment, strategy, sorted_debts, remaining_balance,
                   total_interest, current_month, available_payment, payoff_plan,
                   ledger,
                   avalanche, snowball, horizon,
                   portfolioVars, retirementVars>>

\* max() of an empty sequence raises ValueError.
RaiseEmpty ==
    /\ pc = "recommend"
    /\ Len(debts) = 0
    /\ pc' = "raised"
    /\ UNCHANGED <<debts, monthly_payment, strategy, sorted_debts, remaining_balance,
                   total_interest, current_month, available_payment, payoff_plan,
                   ledger,
                   avalanche, snowball, comparison, horizon,
                   portfolioVars, retirementVars>>

Next ==
    \/ StartAvalanche
    \/ PayMinimums
    \/ ApplyExtra
    \/ ReturnAvalanche
    \/ StartSnowball
    \/ ReturnSnowball
    \/ Recommend
    \/ RaiseEmpty

Spec == Init /\ [][Next]_vars

-----------------------------------------------------------------------------
(* The same call followed for more than MonthLimit months, on single-debt  *)
(* inputs whose balance cannot grow (rate 0, or a budget of at least the   *)
(* balance), so that the balances stay small however long the loop runs.   *)

\* The "maximum month bound, such as 600 months / 50 years".
MonthLimit == 600

InitLong ==
    \E n \in 0..1 : \E attrs \in [1..n -> DebtAttrs] : \E p \in PaymentChoices :
        /\ \A i \in 1..n : attrs[i].interest_rate = 0 \/ attrs[i].balance <= p
        /\ InitCall(DebtList(attrs), p, MonthLimit + 1)

SpecLong == InitLong /\ [][Next]_vars

-----------------------------------------------------------------------------
(* Claims about the debt engine.                                           *)

Finished(r) == r # None

\* Sum of the minimum payments of the debts that still owe something.
TotalMinimums(ds) ==
    LET RECURSIVE Sum(_)
        Sum(i) == IF i > Len(ds) THEN 0
                  ELSE (IF ds[i].balance > 0 THEN ds[i].minimum_payment ELSE 0)
                       + Sum(i + 1)
    IN  Sum(1)

\* An ordinary payoff result: it reports total_interest and months_to_payoff.
IsPayoffResult(r) == {"total_interest", "months_to_payoff"} \subseteq DOMAIN r

\* C1: whatever the debts and the budget, a simulation stops after at most
\* 600 simulated months: the month counter never passes MonthLimit.
C1_MonthsBounded == current_month <= MonthLimit

\* C2: when the total of the minimum payments exceeds monthly_payment, the
\* engine returns a distinct "insufficient payment" result, not an ordinary
\* payoff result with total_interest and months_to_payoff.
C2_InsufficientReported ==
    (pc = "done" /\ TotalMinimums(debts) > monthly_payment)
        => /\ ~IsPayoffResult(comparison.avalanche)
           /\ ~IsPayoffResult(comparison.snowball)

\* Raising the budget from monthly_payment to p2 raises neither figure of r.
NoWorseWith(strat, r, p2) ==
    LET r2 == Run(strat, debts, p2, horizon)
    IN  Finished(r2) => /\ r2.months_to_payoff <= r.months_to_payoff
                        /\ r2.total_interest <= r.total_interest

\* C3: for fixed debts and either strategy, a larger monthly_payment never
\* gives more months_to_payoff nor more total_interest.
C3_MonotoneInBudget ==
    pc = "done" =>
        \A p2 \in PaymentChoices :
            p2 >= monthly_payment =>
                /\ NoWorseWith("avalanche", comparison.avalanche, p2)
                /\ NoWorseWith("snowball", comparison.snowball, p2)

\* C4: whenever avalanche is recommended, the avalanche run's total_interest
\* is not above the snowball run's: interest_savings >= 0.
C4_AvalancheSavesInterest ==
    (pc = "done" /\ comparison.recommended_strategy = "avalanche")
        => /\ comparison.avalanche.total_interest <= comparison.snowball.total_interest
           /\ comparison.interest_savings >= 0

\* C5: for either strategy the result's total_paid is the sum of the debts'
\* initial balances plus the result's total_interest.
C5_MoneyConservation ==
    /\ Finished(avalanche) =>
          avalanche.total_paid = SumBalances(debts) + avalanche.total_interest
    /\ Finished(snowball) =>
          snowball.total_paid = SumBalances(debts) + snowball.total_interest

C5_Witness ==
    /\ pc = "done"
    /\ Len(debts) >= 2
    /\ comparison.avalanche.total_interest > 0
    /\ comparison.snowball.total_interest > 0

DebtNamed(n) == debts[CHOOSE i \in 1..Len(debts) : debts[i].name = n]

\* order lists every debt name exactly once.
IsNamePermutation(order) ==
    /\ Len(order) = Len(debts)
    /\ \A i \in 1..Len(debts) : \E j \in 1..Len(order) : order[j] = debts[i].name
    /\ \A i, j \in 1..Len(order) : order[i] = order[j] => i = j

\* C6: avalanche's payoff_order is a permutation of the debt names in
\* non-increasing interest_rate order, snowball's in non-decreasing
\* starting-balance order, for every order of the input list.
C6_StrategyOrdering ==
    /\ Finished(avalanche) =>
          /\ IsNamePermutation(avalanche.payoff_order)
          /\ \A i, j \in 1..Len(avalanche.payoff_order) :
                i < j => DebtNamed(avalanche.payoff_order[i]).interest_rate
                           >= DebtNamed(avalanche.payoff_order[j]).interest_rate
    /\ Finished(snowball) =>
          /\ IsNamePermutation(snowball.payoff_order)
          /\ \A i, j \in 1..Len(snowball.payoff_order) :
                i < j => DebtNamed(snowball.payoff_order[i]).balance
                           <= DebtNamed(snowball.payoff_order[j]).balance

\* Both results exist for three debts that the input lists in neither order.
C6_Witness ==
    /\ pc = "done"
    /\ Len(debts) = 3
    /\ debts[1].interest_rate < debts[2].interest_rate
    /\ debts[3].interest_rate < debts[2].interest_rate
    /\ debts[1].balance > debts[2].balance
    /\ debts[3].balance > debts[2].balance
    /\ comparison.avalanche.payoff_order # comparison.snowball.payoff_order

\* C7: recommended_strategy is "avalanche" exactly when the largest and the
\* smallest interest_rate differ by more than 3, "snowball" otherwise (also
\* at exactly 3), whatever monthly_payment and the simulated totals are.
C7_RecommendationRule ==
    pc = "done" =>
        LET wide == \E i, j \in 1..Len(debts) :
                        debts[i].interest_rate - debts[j].interest_rate > 3
        IN  comparison.recommended_strategy =
                (IF wide THEN "avalanche" ELSE "snowball")

\* A finished comparison whose rates differ by exactly 3.
C7_Witness ==
    /\ pc = "done"
    /\ InterestSpread(debts) = 3
    /\ comparison.recommended_strategy = "snowball"
    /\ comparison.avalanche.months_to_payoff > 1
    /\ monthly_payment > 0

\* The month of a run in which the balance of the debt `name` first is <= 0
\* after a for loop of the month; 0 when the `fuel` months do not see it.
RECURSIVE ClearedMonth(_, _, _, _, _)
ClearedMonth(sd, p, loc, name, fuel) ==
    IF fuel = 0 THEN 0
    ELSE LET minimums == MinimumsPhase(sd, p, loc)
             extra == ExtraPhase(sd, minimums)
         IN  IF minimums.remaining_balance[name] <= 0
                \/ extra.remaining_balance[name] <= 0
             THEN extra.current_month
             ELSE ClearedMonth(sd, p, extra, name, fuel - 1)

\* The positions of r's payoff_plan that are about the debt `name`.
EntriesFor(r, name) ==
    {k \in 1..Len(r.payoff_plan) : r.payoff_plan[k].debt = name}

PayoffLogComplete(strat, r) ==
    \A i \in 1..Len(debts) :
        debts[i].balance > 0 =>
            /\ Cardinality(EntriesFor(r, debts[i].name)) = 1
            /\ \A k \in EntriesFor(r, debts[i].name) :
                  r.payoff_plan[k].month_paid_off =
                      ClearedMonth(SortedFor(strat, debts), monthly_payment,
                                   StartLocals(debts), debts[i].name, horizon)

\* C21: when a simulation terminates, payoff_plan has exactly one entry for
\* every debt whose starting balance was > 0, and the entry's month_paid_off
\* is the month in which the debt's balance first reached <= 0, whether a
\* minimum payment or an extra payment cleared it.
C21_PayoffLogComplete ==
    /\ Finished(avalanche) => PayoffLogComplete("avalanche", avalanche)
    /\ Finished(snowball) => PayoffLogComplete("snowball", snowball)

\* The debt a ledger event is about.
EventDebt(e) == sorted_debts[e.position]

\* The locals an iteration of a for loop left behind: those the next
\* iteration found, or the present ones after the last iteration.
BalancesAfter(k) ==
    IF k < Len(ledger.events) THEN ledger.events[k + 1].remaining_balance
    ELSE remaining_balance

\* C22: within a simulated month a debt accrues interest, balance * rate /
\* 100 / 12 added to its balance and to total_interest, only if it is reached
\* after the minimum payments with a remaining balance > 0 and a leftover
\* budget > 0; a debt reached with leftover <= 0 accrues none, and
\* total_interest stays 0 in a run whose budget never exceeds the minimums.
C22_InterestGating ==
    /\ \A k \in 1..Len(ledger.events) :
          LET e == ledger.events[k]
              name == EventDebt(e).name
              gate == /\ e.loop = "extra"
                      /\ e.remaining_balance[name] > 0
                      /\ e.available_payment > 0
          IN  /\ e.interest =
                    (IF gate
                     THEN (e.remaining_balance[name] * EventDebt(e).interest_rate) \div 1200
                     ELSE 0)
              /\ BalancesAfter(k)[name]
                    = e.remaining_balance[name] + e.interest - e.payment
    /\ ~ledger.surplus => total_interest = 0
    /\ total_interest >= 0

\* A month in which the first debt accrued interest and took the whole
\* leftover, and the second, still owing, was reached with nothing left.
C22_Witness ==
    /\ pc = "while"
    /\ \E k, l \in 1..Len(ledger.events) :
          /\ k < l
          /\ ledger.events[k].loop = "extra"
          /\ ledger.events[k].interest > 0
          /\ ledger.events[l].loop = "extra"
          /\ ledger.events[l].remaining_balance[EventDebt(ledger.events[l]).name] > 0
          /\ ledger.events[l].available_payment = 0
          /\ ledger.events[l].interest = 0
    /\ total_interest > 0

\* C23: in every simulated month, after the minimum payments, a debt gets an
\* extra payment only if every debt ahead of it in the priority order
\* (highest rate first for avalanche, smallest starting balance first for
\* snowball) has a remaining balance <= 0 at that point of the month, and the
\* extra payment is min(leftover, balance).
C23_ExtraPriority ==
    \A k \in 1..Len(ledger.events) :
        LET e == ledger.events[k]
            name == EventDebt(e).name
        IN  e.loop = "extra" =>
              /\ e.payment > 0 =>
                    \A j \in 1..(e.position - 1) :
                        /\ e.remaining_balance[sorted_debts[j].name] <= 0
                        /\ strategy = "avalanche" =>
                              sorted_debts[j].interest_rate >= EventDebt(e).interest_rate
                        /\ strategy = "snowball" =>
                              sorted_debts[j].balance <= EventDebt(e).balance
              /\ e.payment =
                    (IF e.remaining_balance[name] > 0 /\ e.available_payment > 0
                     THEN Min(e.available_payment, e.remaining_balance[name] + e.interest)
                     ELSE 0)

\* A month whose leftover cleared the first debt and went on to the second.
C23_Witness ==
    /\ pc = "while"
    /\ \E k, l \in 1..Len(ledger.events) :
          /\ k < l
          /\ ledger.events[k].loop = "extra"
          /\ ledger.events[k].payment > 0
          /\ ledger.events[l].loop = "extra"
          /\ ledger.events[l].payment > 0
          /\ remaining_balance[EventDebt(ledger.events[l]).name] > 0

\* C25: calculate_debt_avalanche, calculate_debt_snowball and
\* compare_strategies leave the caller's debts list as it was (same order,
\* same name, balance, interest_rate and minimum_payment in every debt) at
\* every step, so the snowball run starts from the input the avalanche run
\* started from.
C25_DebtsUnchanged ==
    [][/\ debts' = debts
       /\ monthly_payment' = monthly_payment
       /\ (pc = "call_snowball" /\ pc' = "while") =>
             /\ remaining_balance' = InitialBalances(debts)
             /\ \A i \in 1..Len(debts) :
                   debts[i].balance > 0 => remaining_balance'[debts[i].name] > 0]_vars

\* Both runs have paid off two debts, and the list still shows what was owed.
C25_Witness ==
    /\ pc = "done"
    /\ Len(debts) >= 2
    /\ \A i \in 1..Len(debts) : debts[i].balance > 0
    /\ \A n \in DOMAIN remaining_balance : remaining_balance[n] = 0
    /\ comparison.avalanche.total_paid = comparison.snowball.total_paid
    /\ ledger.paid > 0

\* The payments the for loops of the month under way have applied.
RECURSIVE PaymentsOf(_)
PaymentsOf(events) ==
    IF events = <<>> THEN 0 ELSE Head(events).payment + PaymentsOf(Tail(events))

\* C26: in every simulated month of either strategy the minimum and extra
\* payments applied across the debts total at most monthly_payment: the
\* month's available-payment pool never goes below 0.
C26_BudgetCap ==
    pc \in {"while", "extra"} =>
        /\ PaymentsOf(ledger.events) <= monthly_payment
        /\ available_payment >= 0

\* C27: with non-negative starting balances, rates and minimum payments no
\* remaining balance ever becomes negative, and when a simulation terminates
\* every balance is exactly 0 and the minimum and extra payments applied
\* over all its months total the reported total_paid (the initial balances
\* plus total_interest).
C27_PaymentsAccount ==
    /\ \A n \in DOMAIN remaining_balance : remaining_balance[n] >= 0
    /\ (pc = "while" /\ ~AnyBalanceLeft(remaining_balance)) =>
          /\ \A n \in DOMAIN remaining_balance : remaining_balance[n] = 0
          /\ ledger.paid = SumBalances(debts) + total_interest
    /\ pc = "call_snowball" =>
          /\ ledger.paid = avalanche.total_paid
          /\ \A n \in DOMAIN remaining_balance : remaining_balance[n] = 0
    /\ pc \in {"recommend", "done"} =>
          /\ ledger.paid = snowball.total_paid
          /\ \A n \in DOMAIN remaining_balance : remaining_balance[n] = 0

\* A finished comparison of two debts whose snowball run paid minimums,
\* extras and interest.
C27_Witness ==
    /\ pc = "done"
    /\ Len(debts) >= 2
    /\ \A i \in 1..Len(debts) : debts[i].balance > 0 /\ debts[i].minimum_payment > 0
    /\ comparison.snowball.total_interest > 0
    /\ comparison.snowball.months_to_payoff > 1
    /\ ledger.paid = comparison.snowball.total_paid
    /\ ledger.paid > SumBalances(debts)

\* The stable sorts of lines 33 and 107 put debt i before a later debt j
\* when its rate is not lower, respectively when its balance is not higher.
OrdersCoincide(ds) ==
    \A i \in 1..Len(ds) : \A j \in (i + 1)..Len(ds) :
        (ds[i].interest_rate >= ds[j].interest_rate)
            <=> (ds[i].balance <= ds[j].balance)

\* C28: whenever the rate-descending order and the balance-ascending order
\* of the debts coincide (a single debt included), the avalanche and the
\* snowball run return the same total_interest, months_to_payoff and payoff
\* log, and compare_strategies reports interest_savings = 0 and
\* time_difference = 0.
C28_StrategyEquivalence ==
    (pc = "done" /\ comparison # None /\ OrdersCoincide(debts)) =>
        /\ comparison.avalanche.total_interest = comparison.snowball.total_interest
        /\ comparison.avalanche.months_to_payoff = comparison.snowball.months_to_payoff
        /\ comparison.avalanche.payoff_plan = comparison.snowball.payoff_plan
        /\ comparison.interest_savings = 0
        /\ comparison.time_difference = 0

\* A finished comparison of debts with different rates and different
\* balances, listed in another order than the one both strategies pay them
\* in, that accrued interest and logged a payoff.
C28_Witness ==
    /\ pc = "done"
    /\ comparison # None
    /\ OrdersCoincide(debts)
    /\ Len(debts) >= 2
    /\ debts[1].interest_rate < debts[2].interest_rate
    /\ debts[1].balance > debts[2].balance
    /\ comparison.avalanche.total_interest > 0
    /\ comparison.avalanche.payoff_plan # <<>>
    /\ comparison.interest_savings = 0

-----------------------------------------------------------------------------
(* Portfolio valuation and asset allocation.                               *)
(*                                                                         *)
(* A dict is a function on its keys; a key the dict lacks is outside its   *)
(* DOMAIN.  A numeric field holds Null (Python None) or Num(v).            *)

MaxCash == 1
MaxQuantity == 1
MaxPrice == 1

EmptyDict == <<>>
Null == [kind |-> "null"]
Num(v) == [kind |-> "num", val |-> v]

\* d.get(key) or default: a missing key, None and 0 all give the default.
GetOr(d, key, default) ==
    IF key \in DOMAIN d /\ d[key].kind = "num" /\ d[key].val # 0
    THEN d[key].val ELSE default

\* d.get(key, 0) on a dict of numbers.
Get(d, key) == IF key \in DOMAIN d THEN d[key] ELSE 0

\* d.get(key, {}) and d.get(key, []).
GetDict(d, key) == IF key \in DOMAIN d THEN d[key] ELSE EmptyDict

\* price_val = instrument.get("current_price") or 100
DefaultPrice == 100

\* quantity * price of one position.
PositionValue(position) ==
    GetOr(position, "quantity", 0)
        * GetOr(GetDict(position, "instrument"), "current_price", DefaultPrice)

RECURSIVE PositionsValue(_)
PositionsValue(positions) ==
    IF positions = <<>> THEN 0
    ELSE PositionValue(Head(positions)) + PositionsValue(Tail(positions))

\* RetirementCalculator.calculate_portfolio_value: both loops.
RECURSIVE AccountsValue(_)
AccountsValue(accounts) ==
    IF accounts = <<>> THEN 0
    ELSE GetOr(Head(accounts), "cash_balance", 0)
         + PositionsValue(GetDict(Head(accounts), "positions"))
         + AccountsValue(Tail(accounts))

PortfolioValue(pd) == AccountsValue(GetDict(pd, "accounts"))

\* EstimatorIntegration: self.portfolio_data = portfolio_data or {}, then the
\* same statements as RetirementCalculator.calculate_portfolio_value.
EstimatorPortfolioValue(pd) ==
    LET RECURSIVE Positions(_)
        Positions(ps) ==
            IF ps = <<>> THEN 0
            ELSE GetOr(Head(ps), "quantity", 0)
                   * GetOr(GetDict(Head(ps), "instrument"), "current_price", DefaultPrice)
                 + Positions(Tail(ps))
        RECURSIVE Accounts(_)
        Accounts(as) ==
            IF as = <<>> THEN 0
            ELSE GetOr(Head(as), "cash_balance", 0)
                 + Positions(GetDict(Head(as), "positions"))
                 + Accounts(Tail(as))
    IN  Accounts(GetDict(pd, "accounts"))

\* total_<bucket> += value * asset_allocation.get(label, 0) / 100 over the
\* positions whose instrument has a non-empty allocation_asset_class; the
\* weight is kept in hundredths (value * percentage), so it stays an integer.
RECURSIVE PositionsWeight(_, _)
PositionsWeight(positions, label) ==
    IF positions = <<>> THEN 0
    ELSE LET asset_allocation ==
                 GetDict(GetDict(Head(positions), "instrument"), "allocation_asset_class")
         IN  (IF asset_allocation # EmptyDict
              THEN PositionValue(Head(positions)) * Get(asset_allocation, label)
              ELSE 0)
             + PositionsWeight(Tail(positions), label)

RECURSIVE AccountsWeight(_, _)
AccountsWeight(accounts, label) ==
    IF accounts = <<>> THEN 0
    ELSE PositionsWeight(GetDict(Head(accounts), "positions"), label)
         + AccountsWeight(Tail(accounts), label)

\* total_cash: the cash balances of the accounts.
RECURSIVE AccountsCash(_)
AccountsCash(accounts) ==
    IF accounts = <<>> THEN 0
    ELSE GetOr(Head(accounts), "cash_balance", 0) + AccountsCash(Tail(accounts))

\* A returned fraction num / den, kept exact.
Frac(n, d) == [num |-> n, den |-> d]

Zero == Frac(0, 1)

AllZero ==
    [equity |-> Zero, bonds |-> Zero, real_estate |-> Zero, commodities |-> Zero,
     cash |-> Zero]

\* The dictionary of the five quotients total_<bucket> / total_value.
Quotients(accounts, total_value) ==
    IF total_value = 0 THEN [raised |-> "ZeroDivisionError"]
    ELSE [equity |-> Frac(AccountsWeight(accounts, "equity"), 100 * total_value),
          bonds |-> Frac(AccountsWeight(accounts, "fixed_income"), 100 * total_value),
          real_estate |-> Frac(AccountsWeight(accounts, "real_estate"), 100 * total_value),
          commodities |-> Frac(AccountsWeight(accounts, "commodities"), 100 * total_value),
          cash |-> Frac(100 * AccountsCash(accounts), 100 * total_value)]

\* Mutant: the bonds bucket is read from a label the instruments do not use.
AssetAllocationBondsLabel(pd) ==
    LET accounts == GetDict(pd, "accounts")
        total_value == AccountsValue(accounts)
    IN  IF total_value = 0 THEN AllZero
        ELSE [Quotients(accounts, total_value) EXCEPT
                 !.bonds = Frac(AccountsWeight(accounts, "bonds"), 100 * total_value)]

\* Mutant: the total_value == 0 branch is missing.
AssetAllocationNoZeroBranch(pd) ==
    LET accounts == GetDict(pd, "accounts")
    IN  Quotients(accounts, AccountsValue(accounts))

\* RetirementCalculator.calculate_asset_allocation.
AssetAllocation(pd) ==
    LET accounts == GetDict(pd, "accounts")
        total_value == AccountsValue(accounts)
    IN  IF total_value = 0 THEN AllZero
        ELSE Quotients(accounts, total_value)

-----------------------------------------------------------------------------
(* Inputs of the portfolio functions.                                      *)

\* Dicts with the key absent, or present with one of the values.
Optional(key, values) == {EmptyDict} \cup {(key :> v) : v \in values}

AllocationChoices ==
    {EmptyDict,
     [equity |-> 100],
     [equity |-> 40, fixed_income |-> 30, real_estate |-> 20, commodities |-> 10],
     [equity |-> 50, cash |-> 50]}

Instruments ==
    {p @@ a : p \in Optional("current_price", {Null} \cup {Num(v) : v \in 0..MaxPrice}),
              a \in Optional("allocation_asset_class", AllocationChoices)}

Positions ==
    {q @@ i : q \in Optional("quantity", {Null} \cup {Num(v) : v \in 0..MaxQuantity}),
              i \in Optional("instrument", Instruments)}

Accounts ==
    {c @@ ps : c \in Optional("cash_balance", {Null} \cup {Num(v) : v \in 0..MaxCash}),
               ps \in Optional("positions", {<<>>} \cup {<<p>> : p \in Positions})}

Portfolios ==
    Optional("accounts", {<<>>} \cup {<<a>> : a \in Accounts}
                               \cup {<<a, b>> : a \in Accounts, b \in Accounts})

InitPortfolio ==
    /\ portfolio_data \in Portfolios
    /\ pc = "portfolio_value"
    /\ portfolio_value = None
    /\ estimator_value = None
    /\ allocation = None
    /\ debts = <<>>
    /\ monthly_payment = 0
    /\ horizon = 0
    /\ strategy = "avalanche"
    /\ sorted_debts = <<>>
    /\ remaining_balance = <<>>
    /\ available_payment = 0
    /\ total_interest = 0
    /\ payoff_plan = <<>>
    /\ current_month = 0
    /\ ledger = NoLedger
    /\ avalanche = None
    /\ snowball = None
    /\ comparison = None
    /\ RetirementIdle

CalculatePortfolioValue ==
    /\ pc = "portfolio_value"
    /\ portfolio_value' = PortfolioValue(portfolio_data)
    /\ pc' = "estimator_value"
    /\ UNCHANGED <<debtVars, retirementVars, portfolio_data, estimator_value, allocation>>

EstimatorCalculatePortfolioValue ==
    /\ pc = "estimator_value"
    /\ estimator_value' = EstimatorPortfolioValue(portfolio_data)
    /\ pc' = "asset_allocation"
    /\ UNCHANGED <<debtVars, retirementVars, portfolio_data, portfolio_value, allocation>>

CalculateAssetAllocation ==
    /\ pc = "asset_allocation"
    /\ allocation' = AssetAllocation(portfolio_data)
    /\ pc' = "returned"
    /\ UNCHANGED <<debtVars, retirementVars, portfolio_data, portfolio_value, estimator_value>>

NextPortfolio ==
    \/ CalculatePortfolioValue
    \/ EstimatorCalculatePortfolioValue
    \/ CalculateAssetAllocation

SpecPortfolio == InitPortfolio /\ [][NextPortfolio]_vars

-----------------------------------------------------------------------------
(* Claims about portfolio valuation and asset allocation.                  *)

AccountsOf(pd) == GetDict(pd, "accounts")

\* Every position of the portfolio.
PositionsOf(pd) ==
    {GetDict(AccountsOf(pd)[i], "positions")[j] :
        i \in {k \in 1..Len(AccountsOf(pd)) :
                  GetDict(AccountsOf(pd)[k], "positions") # <<>>},
        j \in {1}}

AllocationOf(position) ==
    GetDict(GetDict(position, "instrument"), "allocation_asset_class")

\* A numeric field read with missing, null and zero all counting as 0.
ZeroIfAbsent(d, key) ==
    IF key \in DOMAIN d /\ d[key].kind = "num" THEN d[key].val ELSE 0

\* Cash plus quantity x current_price, absent prices and quantities being 0.
RECURSIVE SumWithAbsentAsZero(_)
SumWithAbsentAsZero(accounts) ==
    IF accounts = <<>> THEN 0
    ELSE LET ps == GetDict(Head(accounts), "positions")
         IN  ZeroIfAbsent(Head(accounts), "cash_balance")
             + (IF ps = <<>> THEN 0
                ELSE ZeroIfAbsent(ps[1], "quantity")
                       * ZeroIfAbsent(GetDict(ps[1], "instrument"), "current_price"))
             + SumWithAbsentAsZero(Tail(accounts))

\* C8: portfolio_value is the sum of the cash balances plus the sum of
\* quantity x current_price, a missing, null or zero price or quantity
\* contributing 0 (both implementations).
C8_PortfolioValueSum ==
    pc = "returned" =>
        /\ portfolio_value = SumWithAbsentAsZero(AccountsOf(portfolio_data))
        /\ estimator_value = SumWithAbsentAsZero(AccountsOf(portfolio_data))

\* Sum of the percentages of a map over the given labels.
RECURSIVE PercentTotal(_, _)
PercentTotal(m, labels) ==
    IF labels = {} THEN 0
    ELSE LET l == CHOOSE x \in labels : TRUE
         IN  Get(m, l) + PercentTotal(m, labels \ {l})

\* The asset-class labels calculate_asset_allocation reads.
ReadLabels == {"equity", "fixed_income", "real_estate", "commodities"}

FiveFractionsSumToOne ==
    allocation.equity.num + allocation.bonds.num + allocation.real_estate.num
        + allocation.commodities.num + allocation.cash.num = allocation.cash.den

C10_ZeroValueAllZero ==
    (pc = "returned" /\ portfolio_value = 0) =>
        /\ "raised" \notin DOMAIN allocation
        /\ \A b \in {"equity", "bonds", "real_estate", "commodities", "cash"} :
              allocation[b].num = 0

\* Two accounts with zero cash and zero-quantity positions.
C10_Witness ==
    /\ pc = "returned"
    /\ portfolio_value = 0
    /\ Len(AccountsOf(portfolio_data)) = 2
    /\ \A i \in 1..2 :
          /\ "cash_balance" \in DOMAIN AccountsOf(portfolio_data)[i]
          /\ AccountsOf(portfolio_data)[i].cash_balance = Num(0)
          /\ GetDict(AccountsOf(portfolio_data)[i], "positions") # <<>>
    /\ \A pos \in PositionsOf(portfolio_data) : AllocationOf(pos) # EmptyDict
    /\ allocation = AllZero

-----------------------------------------------------------------------------
(* The stateless calculators: calculate_rmd,                               *)
(* calculate_social_security_benefit and calculate_student_loan_payment.   *)
(* A returned float is kept as the exact fraction num / den (den > 0) of   *)
(* the decimal constants of the source.                                    *)

MaxAccountBalance == 2
MaxAge == 116
MaxBenefit == 2
MaxClaimingAge == 73
MaxFullRetirementAge == 71
MaxPrincipal == 2
MaxLoanYears == 1

ZeroDivisionError == [raised |-> "ZeroDivisionError"]

Raised(r) == "raised" \in DOMAIN r

\* Comparisons of two fractions with positive denominators; over a common
\* denominator the numerators are compared as they are.
FracEq(a, b) ==
    IF a.den = b.den THEN a.num = b.num ELSE a.num * b.den = b.num * a.den

FracLess(a, b) ==
    IF a.den = b.den THEN a.num < b.num ELSE a.num * b.den < b.num * a.den

\* The debt and portfolio engines are not running.
EnginesIdle ==
    /\ debts = <<>>
    /\ monthly_payment = 0
    /\ horizon = 0
    /\ strategy = "avalanche"
    /\ sorted_debts = <<>>
    /\ remaining_balance = <<>>
    /\ available_payment = 0
    /\ total_interest = 0
    /\ payoff_plan = <<>>
    /\ current_month = 0
    /\ ledger = NoLedger
    /\ avalanche = None
    /\ snowball = None
    /\ comparison = None
    /\ portfolio_data = None
    /\ portfolio_value = None
    /\ estimator_value = None
    /\ allocation = None

\* rmd_divisors, in hundredths.
rmd_divisors ==
    (72 :> 2740) @@ (73 :> 2650) @@ (74 :> 2550) @@ (75 :> 2460) @@
    (76 :> 2370) @@ (77 :> 2290) @@ (78 :> 2200) @@ (79 :> 2110) @@
    (80 :> 2020) @@ (81 :> 1930) @@ (82 :> 1840) @@ (83 :> 1750) @@
    (84 :> 1660) @@ (85 :> 1580) @@ (90 :> 1270) @@ (95 :> 960) @@
    (100 :> 630) @@ (105 :> 410) @@ (110 :> 250) @@ (115 :> 190)

\* divisor = rmd_divisors.get(age), interpolated when None; in hundredths.
RmdDivisor(age) ==
    IF age \in DOMAIN rmd_divisors THEN rmd_divisors[age]
    ELSE IF age < 85 THEN 2740 - (age - 72) * 80
    ELSE IF age < 100 THEN 1580 - (age - 85) * 30
    ELSE 630 - (age - 100) * 15

\* Mutant: the first required year is 73.
CalculateRmdAfter72(account_balance, age) ==
    IF age <= 72 THEN Frac(0, 1)
    ELSE IF RmdDivisor(age) = 0 THEN ZeroDivisionError
    ELSE Frac(account_balance * 100, RmdDivisor(age))

\* RetirementCalculator.calculate_rmd.
CalculateRmd(account_balance, age) ==
    IF age < 72 THEN Frac(0, 1)
    ELSE IF RmdDivisor(age) = 0 THEN ZeroDivisionError
    ELSE Frac(account_balance * 100, RmdDivisor(age))

\* The denominator of the reductions and increases.  Ages are whole years, so
\* months_before_fra is a multiple of 12 and months * (6.67 / 12) / 100 is
\* months * 667 / 12 ten-thousandths; 0.08 is 800 ten-thousandths.
SsDen == 10000

\* reduction * SsDen for a claim months_before_fra months early.
Reduction(months_before_fra) ==
    IF months_before_fra <= 36 THEN (months_before_fra * 667) \div 12
    ELSE (36 * 667 + (months_before_fra - 36) * 500) \div 12

\* benefit, by the three branches on claiming_age; years_after_fra is
\* min(claiming_age - fra, cap - fra) with cap = 70 in the source.
BenefitAt(claiming_age, full_retirement_age, estimated_benefit_at_fra, capped) ==
    IF claiming_age < full_retirement_age
    THEN Frac(estimated_benefit_at_fra
                * (SsDen - Reduction((full_retirement_age - claiming_age) * 12)),
              SsDen)
    ELSE IF claiming_age > full_retirement_age
    THEN LET years_after_fra ==
                 IF capped
                 THEN Min(claiming_age - full_retirement_age, 70 - full_retirement_age)
                 ELSE claiming_age - full_retirement_age
         IN  Frac(estimated_benefit_at_fra * (SsDen + years_after_fra * 800), SsDen)
    ELSE Frac(estimated_benefit_at_fra, 1)

SocialSecurityResult(a, claiming_age, benefit) ==
    [claiming_age |-> claiming_age,
     full_retirement_age |-> a.full_retirement_age,
     benefit_at_fra |-> a.estimated_benefit_at_fra,
     benefit_at_claiming_age |-> benefit,
     monthly_benefit |-> Frac(benefit.num, benefit.den * 12),
     annual_benefit |-> benefit]

\* if claiming_age is None: claiming_age = full_retirement_age
ClaimingAge(a) ==
    IF a.claiming_age.kind = "null" THEN a.full_retirement_age
    ELSE a.claiming_age.val

\* Mutant: the delayed credit is dropped.
SocialSecurityNoDelayedCredit(a) ==
    SocialSecurityResult(a, ClaimingAge(a),
        IF ClaimingAge(a) > a.full_retirement_age
        THEN Frac(a.estimated_benefit_at_fra, 1)
        ELSE BenefitAt(ClaimingAge(a), a.full_retirement_age,
                       a.estimated_benefit_at_fra, TRUE))

\* Mutant: the delayed credit keeps growing after 70.
SocialSecurityUncapped(a) ==
    SocialSecurityResult(a, ClaimingAge(a),
        BenefitAt(ClaimingAge(a), a.full_retirement_age,
                  a.estimated_benefit_at_fra, FALSE))

\* RetirementCalculator.calculate_social_security_benefit.
CalculateSocialSecurityBenefit(a) ==
    SocialSecurityResult(a, ClaimingAge(a),
        BenefitAt(ClaimingAge(a), a.full_retirement_age,
                  a.estimated_benefit_at_fra, TRUE))

RECURSIVE Pow(_, _)
Pow(b, n) == IF n = 0 THEN 1 ELSE b * Pow(b, n - 1)

\* The amortization formula of lines 215-216.
Amortized(principal, monthly_rate, num_payments) ==
    IF Pow(1 + monthly_rate, num_payments) - 1 = 0 THEN ZeroDivisionError
    ELSE Frac(principal * monthly_rate * Pow(1 + monthly_rate, num_payments),
              Pow(1 + monthly_rate, num_payments) - 1)

\* Mutant: the zero-rate branch is missing.
StudentLoanPaymentFormulaOnly(principal, interest_rate, years) ==
    Amortized(principal, interest_rate \div 1200, years * 12)

\* DebtCalculator.calculate_student_loan_payment; interest_rate / 100 / 12
\* is exact on the rates 0 and 1200 of the explored calls.
CalculateStudentLoanPayment(principal, interest_rate, years) ==
    LET monthly_rate == interest_rate \div 1200
        num_payments == years * 12
    IN  IF monthly_rate = 0
        THEN IF num_payments = 0 THEN ZeroDivisionError
             ELSE Frac(principal, num_payments)
        ELSE Amortized(principal, monthly_rate, num_payments)

-----------------------------------------------------------------------------
(* EstimatorIntegration.estimate_retirement_readiness (tagger/estimators). *)

MaxEstimatorValue == 2

RECURSIVE Gcd(_, _)
Gcd(a, b) == IF b = 0 THEN a ELSE Gcd(b, a % b)

\* EstimatorIntegration.calculate_asset_allocation: the statements of
\* RetirementCalculator.calculate_asset_allocation on self.portfolio_data.
EstimatorAssetAllocation(pd) ==
    LET accounts == GetDict(pd, "accounts")
        total_value == AccountsValue(accounts)
    IN  IF total_value = 0 THEN AllZero
        ELSE Quotients(accounts, total_value)

\* expected_return of lines 105-110 and 287-292: the five quotients have one
\* denominator; the sum is kept in lowest terms.
EstimatorExpectedReturn(asset_allocation) ==
    LET num == asset_allocation.equity.num * 7 + asset_allocation.bonds.num * 4
                 + asset_allocation.real_estate.num * 6
                 + asset_allocation.cash.num * 2
        den == asset_allocation.equity.den * 100
    IN  Frac(num \div Gcd(num, den), den \div Gcd(num, den))

\* The loop of lines 115-117 with annual_contribution = 10000.
RECURSIVE EstimatorExpectedValue(_, _, _)
EstimatorExpectedValue(current_value, years, expected_return) ==
    IF years = 0 THEN Frac(current_value, 1)
    ELSE LET before == EstimatorExpectedValue(current_value, years - 1,
                                              expected_return)
         IN  Frac(before.num * (expected_return.den + expected_return.num)
                      + 10000 * before.den * expected_return.den,
                  before.den * expected_return.den)

\* EstimatorIntegration._calculate_required_contribution.  The powers are
\* taken over the common denominator expected_return.den ^ years:
\* future_value_factor = grown / scale and
\* annuity_factor = ((grown - scale) / scale) / expected_return.
EstimatorRequiredContribution(current_value, years, target_income, expected_return) ==
    LET target_portfolio_value == target_income * 25
        grown == Pow(expected_return.den + expected_return.num, years)
        scale == Pow(expected_return.den, years)
        shortfall == target_portfolio_value * scale - current_value * grown
    IN  IF expected_return.num = 0 THEN ZeroDivisionError
        ELSE IF grown - scale = 0 THEN ZeroDivisionError
        ELSE IF shortfall <= 0 THEN Frac(0, 1)
        ELSE Frac(shortfall * expected_return.num,
                  (grown - scale) * expected_return.den)

\* EstimatorIntegration._estimate_success_probability.
EstimateSuccessProbability(current_value, years, target_income, asset_allocation) ==
    LET expected_return == EstimatorExpectedReturn(asset_allocation)
        target_portfolio_value == target_income * 25
        grown == current_value
                   * Pow(expected_return.den + expected_return.num, years)
        scale == Pow(expected_return.den, years)
    IN  IF grown >= target_portfolio_value * scale THEN 85
        ELSE IF 10 * grown >= 8 * target_portfolio_value * scale THEN 60
        ELSE IF 10 * grown >= 6 * target_portfolio_value * scale THEN 40
        ELSE 20

\* estimate_retirement_readiness on an EstimatorIntegration built from
\* a.portfolio_data and a user_data dict that holds years_until_retirement
\* and a non-zero target_retirement_income.
EstimateRetirementReadinessResult(a) ==
    LET current_value == EstimatorPortfolioValue(a.portfolio_data)
        asset_allocation == EstimatorAssetAllocation(a.portfolio_data)
        expected_return == EstimatorExpectedReturn(asset_allocation)
        expected_value_at_retirement ==
            EstimatorExpectedValue(current_value, a.years_until_retirement,
                                   expected_return)
        projected_annual_income ==
            Frac(expected_value_at_retirement.num, expected_value_at_retirement.den * 25)
        income_gap ==
            Frac(a.target_retirement_income * projected_annual_income.den
                     - projected_annual_income.num,
                 projected_annual_income.den)
        required_contribution ==
            EstimatorRequiredContribution(current_value, a.years_until_retirement,
                                          a.target_retirement_income, expected_return)
    IN  IF Raised(required_contribution) THEN required_contribution
        ELSE [current_portfolio_value |-> current_value,
              expected_value_at_retirement |-> expected_value_at_retirement,
              projected_annual_income |-> projected_annual_income,
              target_annual_income |-> a.target_retirement_income,
              income_gap |-> income_gap,
              years_until_retirement |-> a.years_until_retirement,
              current_annual_contribution |-> 10000,
              required_annual_contribution |-> required_contribution,
              on_track |-> income_gap.num <= 0,
              success_probability |->
                  EstimateSuccessProbability(current_value,
                      a.years_until_retirement, a.target_retirement_income,
                      asset_allocation)]

-----------------------------------------------------------------------------
(* Calls of the stateless calculators.                                     *)

EstimatorYears == {0, 1}

\* Portfolios of at most one account worth at most MaxEstimatorValue.
EstimatorCalls ==
    [fn : {"estimate_retirement_readiness"},
     portfolio_data :
         {pd \in Optional("accounts", {<<>>} \cup {<<a>> : a \in Accounts}) :
             EstimatorPortfolioValue(pd) <= MaxEstimatorValue},
     years_until_retirement : EstimatorYears,
     target_retirement_income : 1..MaxEstimatorValue]

RmdCalls ==
    [fn : {"calculate_rmd"}, account_balance : 0..MaxAccountBalance, age : 60..MaxAge]

SocialSecurityCalls ==
    [fn : {"calculate_social_security_benefit"},
     current_age : {40},
     full_retirement_age : 65..MaxFullRetirementAge,
     estimated_benefit_at_fra : 0..MaxBenefit,
     claiming_age : {Null} \cup {Num(v) : v \in 45..MaxClaimingAge}]

StudentLoanCalls ==
    [fn : {"calculate_student_loan_payment"}, principal : 0..MaxPrincipal,
     interest_rate : {0, 1200}, years : 0..MaxLoanYears]

InitCalculators ==
    /\ pc = "calculator"
    /\ args \in RmdCalls \cup SocialSecurityCalls \cup StudentLoanCalls
                  \cup EstimatorCalls
    /\ result = None
    /\ readiness = None
    /\ mc = None
    /\ threads = None
    /\ rng = 0
    /\ EnginesIdle

CallRmd ==
    /\ pc = "calculator"
    /\ args.fn = "calculate_rmd"
    /\ result' = CalculateRmd(args.account_balance, args.age)
    /\ pc' = "calculator_returned"
    /\ UNCHANGED <<debtVars, portfolioVars, args, readiness, mc, threads, rng>>

CallSocialSecurity ==
    /\ pc = "calculator"
    /\ args.fn = "calculate_social_security_benefit"
    /\ result' = CalculateSocialSecurityBenefit(args)
    /\ pc' = "calculator_returned"
    /\ UNCHANGED <<debtVars, portfolioVars, args, readiness, mc, threads, rng>>

CallStudentLoan ==
    /\ pc = "calculator"
    /\ args.fn = "calculate_student_loan_payment"
    /\ result' = CalculateStudentLoanPayment(args.principal, args.interest_rate, args.years)
    /\ pc' = "calculator_returned"
    /\ UNCHANGED <<debtVars, portfolioVars, args, readiness, mc, threads, rng>>

EstimateRetirementReadiness ==
    /\ pc = "calculator"
    /\ args.fn = "estimate_retirement_readiness"
    /\ result' = EstimateRetirementReadinessResult(args)
    /\ pc' = "calculator_returned"
    /\ UNCHANGED <<debtVars, portfolioVars, args, readiness, mc, threads, rng>>

NextCalculators ==
    \/ CallRmd
    \/ CallSocialSecurity
    \/ CallStudentLoan
    \/ EstimateRetirementReadiness

SpecCalculators == InitCalculators /\ [][NextCalculators]_vars

-----------------------------------------------------------------------------
(* Claims about the stateless calculators.                                 *)

Returned(fn) == pc = "calculator_returned" /\ args.fn = fn

\* C12: the RMD divisor strictly decreases with age over 72..100: for all
\* ages a < b in 72..100, divisor(a) > divisor(b), and for a positive balance
\* the RMD strictly increases.
C12_DivisorDecreasing ==
    (Returned("calculate_rmd") /\ args.age \in 72..100) =>
        \A b \in (args.age + 1)..100 :
            /\ RmdDivisor(args.age) > RmdDivisor(b)
            /\ args.account_balance > 0 =>
                  FracLess(result, CalculateRmd(args.account_balance, b))

\* C13: calculate_rmd returns 0 for every age below 72, and the balance
\* divided by the table divisor for an age of the table (27.4 at 72, 20.2
\* at 80).
C13_RmdByTable ==
    Returned("calculate_rmd") =>
        /\ args.age < 72 => result = Frac(0, 1)
        /\ args.age \in DOMAIN rmd_divisors =>
              /\ ~Raised(result)
              /\ FracEq(result, Frac(args.account_balance * 100, rmd_divisors[args.age]))
        /\ args.age = 72 => FracEq(result, Frac(args.account_balance * 10, 274))
        /\ args.age = 80 => FracEq(result, Frac(args.account_balance * 10, 202))

\* A positive balance at 80.
C13_Witness ==
    /\ Returned("calculate_rmd")
    /\ args.age = 80
    /\ args.account_balance = MaxAccountBalance
    /\ result = Frac(MaxAccountBalance * 100, 2020)

SsCall(claiming_age) ==
    CalculateSocialSecurityBenefit([args EXCEPT !.claiming_age = Num(claiming_age)])

\* C14: with benefit_at_fra > 0 and full retirement age 67, claiming at 67
\* returns exactly benefit_at_fra, every earlier claiming age strictly less
\* and every later one strictly more; benefit(62) < benefit(67) < benefit(70).
C14_ClaimingBoundary ==
    (/\ Returned("calculate_social_security_benefit")
     /\ args.estimated_benefit_at_fra > 0
     /\ args.full_retirement_age = 67) =>
        LET benefit == result.benefit_at_claiming_age
            at_fra == Frac(args.estimated_benefit_at_fra, 1)
        IN  /\ result.claiming_age = 67 => benefit = at_fra
            /\ result.claiming_age < 67 => FracLess(benefit, at_fra)
            /\ result.claiming_age > 67 => FracLess(at_fra, benefit)
            /\ FracLess(SsCall(62).benefit_at_claiming_age,
                        SsCall(67).benefit_at_claiming_age)
            /\ FracLess(SsCall(67).benefit_at_claiming_age,
                        SsCall(70).benefit_at_claiming_age)

\* Claiming at 62 with a full retirement age of 67: 69.99 % of the benefit.
C14_Witness ==
    /\ Returned("calculate_social_security_benefit")
    /\ args.estimated_benefit_at_fra = MaxBenefit
    /\ args.full_retirement_age = 67
    /\ args.claiming_age = Num(62)
    /\ FracEq(result.benefit_at_claiming_age, Frac(MaxBenefit * 6999, 10000))

\* C15: for a full retirement age below 70, every claiming_age >= 70 yields
\* the benefit of claiming at 70, benefit_at_fra * (1 + 0.08 * (70 - fra)).
C15_DelayedCreditCapped ==
    (/\ Returned("calculate_social_security_benefit")
     /\ args.full_retirement_age < 70
     /\ result.claiming_age >= 70) =>
        /\ FracEq(result.benefit_at_claiming_age,
                  Frac(args.estimated_benefit_at_fra
                         * (100 + 8 * (70 - args.full_retirement_age)), 100))
        /\ FracEq(result.benefit_at_claiming_age, SsCall(70).benefit_at_claiming_age)

\* Claiming at 72 with a full retirement age of 67: three years of credit.
C15_Witness ==
    /\ Returned("calculate_social_security_benefit")
    /\ args.estimated_benefit_at_fra = MaxBenefit
    /\ args.full_retirement_age = 67
    /\ args.claiming_age = Num(72)
    /\ FracEq(result.benefit_at_claiming_age, Frac(MaxBenefit * 124, 100))

\* C16: for interest rate 0 and years >= 1, calculate_student_loan_payment
\* returns principal / (years * 12) through the explicit branch, without
\* evaluating the 0 / 0 amortization formula.
C16_ZeroRatePayment ==
    (/\ Returned("calculate_student_loan_payment")
     /\ args.interest_rate = 0
     /\ args.years >= 1) =>
        /\ ~Raised(result)
        /\ result = Frac(args.principal, args.years * 12)

\* A positive principal at rate 0 over a year.
C16_Witness ==
    /\ Returned("calculate_student_loan_payment")
    /\ args.interest_rate = 0
    /\ args.years = 1
    /\ args.principal = MaxPrincipal
    /\ result = Frac(MaxPrincipal, 12)

\* C29: estimate_retirement_readiness returns a result, without a division
\* by zero, for every portfolio: an empty or zero-value portfolio (all-zero
\* allocation, expected return 0) and years_until_retirement = 0 included.
C29_EstimatorReturns ==
    Returned("estimate_retirement_readiness") => ~Raised(result)

\* C30: with benefit_at_fra >= 0 the Social Security benefit is never
\* negative, whatever the integer claiming age and full retirement age: the
\* early-claiming reduction stays within [0, 1] and
\* benefit_at_claiming_age >= 0.
C30_BenefitNonNegative ==
    (/\ Returned("calculate_social_security_benefit")
     /\ args.estimated_benefit_at_fra >= 0) =>
        /\ result.benefit_at_claiming_age.num >= 0
        /\ result.claiming_age < args.full_retirement_age =>
              Reduction((args.full_retirement_age - result.claiming_age) * 12)
                  \in 0..SsDen

-----------------------------------------------------------------------------
(* run_monte_carlo_simulation and calculate_retirement_readiness.          *)
(*                                                                         *)
(* An amount of a simulated path is amount * 1.03 ^ inflation, which keeps *)
(* "annual_withdrawal *= 1.03" exact, and a drawn return is held as the    *)
(* growth 1 + return = quarters / 4 * 1.03 ^ inflation.  The draws of the  *)
(* accumulation phase have inflation 0 and those of the retirement phase   *)
(* inflation 1 (or 0 when nothing is withdrawn), so that every difference  *)
(* the code computes is between two amounts of the same inflation or has a *)
(* zero operand.  The weights of an asset allocation are 0 or 1 with no    *)
(* cash, and the all-zero allocation (nominal growth exactly 1) goes with  *)
(* a target income of 0.                                                   *)

MaxValue == 4
MaxYears == 1
MaxSimulations == 2

\* retirement_years = 30
retirement_years == 30

Money(amount, inflation) == [amount |-> amount, inflation |-> inflation]

\* portfolio_value <= 0 / portfolio_value > 0
Positive(x) == x.amount > 0

\* x - y for amounts of one inflation, or with a zero operand.
Minus(x, y) ==
    IF y.amount = 0 THEN x
    ELSE IF x.amount = 0 THEN Money(0 - y.amount, y.inflation)
    ELSE Money(x.amount - y.amount, x.inflation)

\* x * (1 + portfolio_return)
Grow(x, growth) ==
    IF x.amount = 0 THEN x
    ELSE Money((x.amount * growth.quarters) \div 4, x.inflation + growth.inflation)

\* max(0, portfolio_value)
AtLeastZero(x) == IF x.amount > 0 THEN x ELSE Money(0, 0)

\* The growths 1 + random.gauss(mean, std) the exploration draws, in
\* quarters: a loss of 125 %, of 100 %, no change, a gain of 100 % for
\* equity (mean 0.07, std 0.18), no change for bonds and real estate.
EquityDraws == {0 - 1, 0, 4, 8}
BondDraws == {4}
RealEstateDraws == {4}

\* The three draws of one simulated year.
Draws(inflation) ==
    [equity_return : EquityDraws, bond_return : BondDraws,
     real_estate_return : RealEstateDraws, inflation : {inflation}]

\* 1 + portfolio_return for weights that are 0 or 1 with no cash: the
\* weighted sum of the three returns, in quarters.
PortfolioGrowth(asset_allocation, draws) ==
    LET weight == asset_allocation.equity + asset_allocation.bonds
                    + asset_allocation.real_estate
    IN  [quarters |-> 4 + asset_allocation.equity * (draws.equity_return - 4)
                        + asset_allocation.bonds * (draws.bond_return - 4)
                        + asset_allocation.real_estate * (draws.real_estate_return - 4),
         inflation |-> IF weight = 0 THEN 0 ELSE draws.inflation]

\* The product of an amount and a growth is an amount of the model, within
\* the explored range.
Representable(x, growth) ==
    /\ (x.amount * growth.quarters) % 4 = 0
    /\ growth.quarters <= 4 \/ (x.amount * growth.quarters) \div 4 <= MaxValue

\* The locals before the for loop over the simulations (lines 98-100).
\* withdrawals and depleted record, for the path under way, the number of
\* withdrawals made and whether the value was ever found <= 0.
MonteCarloLocals ==
    [simulation |-> 0,
     year |-> 0,
     portfolio_value |-> Money(0, 0),
     annual_withdrawal |-> Money(0, 0),
     years_income_lasted |-> 0,
     successful_scenarios |-> 0,
     final_values |-> <<>>,
     years_lasted |-> <<>>,
     withdrawals |-> 0,
     depleted |-> FALSE,
     paths |-> <<>>]

\* portfolio_value = current_value (line 103).
StartPath(loc, a) ==
    [loc EXCEPT !.portfolio_value = Money(a.current_value, 0),
                !.year = 0,
                !.withdrawals = 0,
                !.depleted = FALSE]

\* One iteration of the accumulation loop (lines 106-119).
AccumulationYear(loc, a, draws) ==
    LET grown == Grow(loc.portfolio_value, PortfolioGrowth(a.asset_allocation, draws))
    IN  [loc EXCEPT !.portfolio_value =
                        Money(grown.amount + a.annual_contribution, grown.inflation),
                    !.year = @ + 1]

\* Lines 122-124.
StartRetirement(loc, a) ==
    [loc EXCEPT !.annual_withdrawal = Money(a.target_annual_income, 0),
                !.years_income_lasted = 0,
                !.year = 0,
                !.depleted = ~Positive(loc.portfolio_value)]

\* One iteration of the retirement loop that does not break (lines 130-147).
RetirementYear(loc, a, draws) ==
    LET \* annual_withdrawal *= 1.03
        withdrawal == Money(loc.annual_withdrawal.amount,
                            loc.annual_withdrawal.inflation + 1)
        value == Minus(Grow(loc.portfolio_value,
                            PortfolioGrowth(a.asset_allocation, draws)),
                       withdrawal)
    IN  [loc EXCEPT !.annual_withdrawal = withdrawal,
                    !.portfolio_value = value,
                    !.years_income_lasted = IF Positive(value) THEN @ + 1 ELSE @,
                    !.year = @ + 1,
                    !.withdrawals = @ + 1,
                    !.depleted = @ \/ ~Positive(value)]

\* Mutant: a path counts from 29 years on.
EndPathFrom29(loc, a) ==
    [loc EXCEPT !.final_values = Append(@, AtLeastZero(loc.portfolio_value)),
                !.years_lasted = Append(@, loc.years_income_lasted),
                !.successful_scenarios =
                    IF loc.years_income_lasted >= retirement_years - 1
                    THEN @ + 1 ELSE @,
                !.paths = Append(@, [withdrawals |-> loc.withdrawals,
                                     depleted |-> loc.depleted]),
                !.simulation = @ + 1]

\* Lines 149-153, after the retirement loop has ended or broken.
EndPath(loc, a) ==
    [loc EXCEPT !.final_values = Append(@, AtLeastZero(loc.portfolio_value)),
                !.years_lasted = Append(@, loc.years_income_lasted),
                !.successful_scenarios =
                    IF loc.years_income_lasted >= retirement_years
                    THEN @ + 1 ELSE @,
                !.paths = Append(@, [withdrawals |-> loc.withdrawals,
                                     depleted |-> loc.depleted]),
                !.simulation = @ + 1]

\* round(n / d) for n >= 0 and d > 0, ties to even as round() does.
RoundHalfEven(n, d) ==
    LET q == n \div d
        r == n % d
    IN  IF 2 * r < d THEN q
        ELSE IF 2 * r > d THEN q + 1
        ELSE IF q % 2 = 0 THEN q ELSE q + 1

\* 1.03 ^ retirement_years, in millionths.
Inflation30 == 2427262

\* round(x, 2) of a final value, in cents: a positive final value has seen
\* all the retirement years (or none, under the all-zero allocation).
Cents(x) ==
    IF x.inflation = 0 THEN x.amount * 100
    ELSE RoundHalfEven(x.amount * Inflation30, 10000)

RECURSIVE SumSeq(_)
SumSeq(s) == IF s = <<>> THEN 0 ELSE Head(s) + SumSeq(Tail(s))

\* Mutant: the bonds of calculate_retirement_readiness earn the cash rate.
ExpectedReturnBondsAsCash(asset_allocation) ==
    asset_allocation.equity * 7 + asset_allocation.bonds * 2
        + asset_allocation.real_estate * 6 + asset_allocation.cash * 2

\* expected_return of calculate_retirement_readiness (lines 206-211), in
\* percent.
ExpectedReturn(asset_allocation) ==
    asset_allocation.equity * 7 + asset_allocation.bonds * 4
        + asset_allocation.real_estate * 6 + asset_allocation.cash * 2

\* expected_return of run_monte_carlo_simulation (lines 160-165), in percent:
\* the weights times equity_return_mean = 0.07, bond_return_mean = 0.04,
\* real_estate_return_mean = 0.06 and the literal 0.02.
MonteCarloExpectedReturn(asset_allocation) ==
    asset_allocation.equity * 7 + asset_allocation.bonds * 4
        + asset_allocation.real_estate * 6 + asset_allocation.cash * 2

\* The loop of lines 166-169 and 213-216: years times
\* value *= 1 + expected_return; value += annual_contribution.
RECURSIVE ExpectedValue(_, _, _, _)
ExpectedValue(current_value, years, percent, annual_contribution) ==
    IF years = 0 THEN Frac(current_value, 1)
    ELSE LET before == ExpectedValue(current_value, years - 1, percent,
                                     annual_contribution)
         IN  Frac(before.num * (100 + percent) + annual_contribution * before.den * 100,
                  before.den * 100)

\* expected_value_at_retirement of run_monte_carlo_simulation before it is
\* rounded (lines 159-169).
MonteCarloExpectedValue(a) ==
    ExpectedValue(a.current_value, a.years_until_retirement,
                  MonteCarloExpectedReturn(a.asset_allocation), a.annual_contribution)

\* Lines 156-178 for num_simulations > 0: the statistics and the returned
\* dictionary; with num_simulations = 0 the division of line 157 raises.
MonteCarloResult(loc, a) ==
    IF a.num_simulations = 0 THEN ZeroDivisionError
    ELSE LET final_values == SortedBy(loc.final_values, "amount", FALSE)
             expected_value_at_retirement == MonteCarloExpectedValue(a)
         IN  [success_rate |->
                  Frac(RoundHalfEven(loc.successful_scenarios * 1000,
                                     a.num_simulations), 10),
              median_final_value |->
                  Frac(Cents(final_values[a.num_simulations \div 2 + 1]), 100),
              percentile_10 |->
                  Frac(Cents(final_values[a.num_simulations \div 10 + 1]), 100),
              percentile_90 |->
                  Frac(Cents(final_values[(9 * a.num_simulations) \div 10 + 1]), 100),
              average_years_lasted |->
                  Frac(RoundHalfEven(SumSeq(loc.years_lasted) * 10,
                                     Len(loc.years_lasted)), 10),
              expected_value_at_retirement |->
                  Frac(RoundHalfEven(expected_value_at_retirement.num * 100,
                                     expected_value_at_retirement.den), 100)]

\* RetirementCalculator._calculate_required_contribution, with the expected
\* return in percent and the powers over the common denominator 100 ^ years.
CalculateRequiredContribution(current_value, years, target_value, percent) ==
    LET future_value == Pow(100 + percent, years)
        scale == Pow(100, years)
        shortfall == target_value * scale - current_value * future_value
    IN  IF percent > 0
        THEN \* annuity_factor = (future_value / scale - 1) / (percent / 100)
             IF future_value - scale = 0 THEN ZeroDivisionError
             ELSE IF shortfall <= 0 THEN Frac(0, 1)
             ELSE Frac(shortfall * percent, (future_value - scale) * 100)
        ELSE \* annuity_factor = years
             IF years = 0 THEN ZeroDivisionError
             ELSE IF shortfall <= 0 THEN Frac(0, 1)
             ELSE Frac(shortfall, scale * years)

\* Mutant: on_track compares the gap strictly.
ReadinessLocalsStrict(a) ==
    LET expected_return == ExpectedReturn(a.asset_allocation)
        expected_value_at_retirement ==
            ExpectedValue(a.current_value, a.years_until_retirement,
                          expected_return, a.annual_contribution)
        portfolio_income ==
            Frac(expected_value_at_retirement.num * 4,
                 expected_value_at_retirement.den * 100)
        total_retirement_income ==
            Frac(portfolio_income.num
                   + (a.social_security_benefit + a.pension_income) * portfolio_income.den,
                 portfolio_income.den)
        income_gap ==
            Frac(a.target_annual_income * total_retirement_income.den
                   - total_retirement_income.num,
                 total_retirement_income.den)
        required_portfolio_income ==
            a.target_annual_income - a.social_security_benefit - a.pension_income
        required_portfolio_value ==
            IF required_portfolio_income > 0 THEN required_portfolio_income * 25 ELSE 0
    IN  [expected_return |-> expected_return,
         expected_value_at_retirement |-> expected_value_at_retirement,
         portfolio_income |-> portfolio_income,
         total_retirement_income |-> total_retirement_income,
         income_gap |-> income_gap,
         on_track |-> income_gap.num < 0,
         required_portfolio_value |-> required_portfolio_value,
         required_contribution |->
             CalculateRequiredContribution(a.current_value, a.years_until_retirement,
                                           required_portfolio_value, expected_return)]

\* calculate_retirement_readiness, lines 205-237: the locals before the
\* Monte Carlo call (on_track is the "income_gap <= 0" of line 260).
ReadinessLocals(a) ==
    LET expected_return == ExpectedReturn(a.asset_allocation)
        expected_value_at_retirement ==
            ExpectedValue(a.current_value, a.years_until_retirement,
                          expected_return, a.annual_contribution)
        portfolio_income ==
            Frac(expected_value_at_retirement.num * 4,
                 expected_value_at_retirement.den * 100)
        total_retirement_income ==
            Frac(portfolio_income.num
                   + (a.social_security_benefit + a.pension_income) * portfolio_income.den,
                 portfolio_income.den)
        income_gap ==
            Frac(a.target_annual_income * total_retirement_income.den
                   - total_retirement_income.num,
                 total_retirement_income.den)
        required_portfolio_income ==
            a.target_annual_income - a.social_security_benefit - a.pension_income
        required_portfolio_value ==
            IF required_portfolio_income > 0 THEN required_portfolio_income * 25 ELSE 0
    IN  [expected_return |-> expected_return,
         expected_value_at_retirement |-> expected_value_at_retirement,
         portfolio_income |-> portfolio_income,
         total_retirement_income |-> total_retirement_income,
         income_gap |-> income_gap,
         on_track |-> income_gap.num <= 0,
         required_portfolio_value |-> required_portfolio_value,
         required_contribution |->
             CalculateRequiredContribution(a.current_value, a.years_until_retirement,
                                           required_portfolio_value, expected_return)]

\* The dictionary of lines 248-263.
ReadinessResult(a, loc, monte_carlo) ==
    [current_portfolio_value |-> a.current_value,
     expected_value_at_retirement |-> loc.expected_value_at_retirement,
     portfolio_income |-> loc.portfolio_income,
     social_security_benefit |-> a.social_security_benefit,
     pension_income |-> a.pension_income,
     total_retirement_income |-> loc.total_retirement_income,
     target_annual_income |-> a.target_annual_income,
     income_gap |-> loc.income_gap,
     required_portfolio_value |-> loc.required_portfolio_value,
     current_annual_contribution |-> a.annual_contribution,
     required_annual_contribution |-> loc.required_contribution,
     on_track |-> loc.on_track,
     success_probability |-> monte_carlo.success_rate,
     years_until_retirement |-> a.years_until_retirement]

-----------------------------------------------------------------------------
(* One call of run_monte_carlo_simulation, directly or from inside         *)
(* calculate_retirement_readiness.                                         *)

Weights(equity, bonds) ==
    [equity |-> equity, bonds |-> bonds, real_estate |-> 0, cash |-> 0]

AllocationInputs == {Weights(1, 0), Weights(0, 1), Weights(0, 0)}

ValueChoices == {0, 1, MaxValue}

\* Target income, contribution, Social Security benefit and pension.
UnitChoices == {0, 1}

\* The amounts of every path are amounts of the model.
Exact(a) ==
    a.asset_allocation = Weights(0, 0) => a.target_annual_income = 0

\* Runs of several paths start at retirement; the accumulation years of a
\* path are explored by the runs of one path.
Explored(a) ==
    a.num_simulations > 1 => (a.years_until_retirement = 0 /\ a.annual_contribution = 0)

MonteCarloCalls ==
    {a \in [fn : {"run_monte_carlo_simulation"},
            current_value : ValueChoices,
            years_until_retirement : 0..MaxYears,
            target_annual_income : UnitChoices,
            asset_allocation : AllocationInputs,
            annual_contribution : UnitChoices,
            num_simulations : 0..MaxSimulations] : Exact(a) /\ Explored(a)}

\* The call of lines 240-246 leaves num_simulations to its default; the
\* exploration follows one path of it.
ReadinessCalls ==
    {a \in [fn : {"calculate_retirement_readiness"},
            current_value : ValueChoices,
            years_until_retirement : 0..MaxYears,
            target_annual_income : UnitChoices,
            asset_allocation : AllocationInputs,
            annual_contribution : UnitChoices,
            social_security_benefit : UnitChoices,
            pension_income : UnitChoices,
            num_simulations : {1}] : Exact(a)}

InitRetirement ==
    /\ args \in MonteCarloCalls \cup ReadinessCalls
    /\ pc = (IF args.fn = "run_monte_carlo_simulation" THEN "simulations"
             ELSE "readiness")
    /\ mc = (IF args.fn = "run_monte_carlo_simulation" THEN MonteCarloLocals
             ELSE None)
    /\ readiness = None
    /\ result = None
    /\ threads = None
    /\ rng = 0
    /\ EnginesIdle

\* calculate_retirement_readiness up to the Monte Carlo call of line 240.
ReadinessProjection ==
    /\ pc = "readiness"
    /\ readiness' = ReadinessLocals(args)
    /\ IF Raised(ReadinessLocals(args).required_contribution)
       THEN /\ result' = ReadinessLocals(args).required_contribution
            /\ pc' = "raised"
            /\ mc' = mc
       ELSE /\ result' = result
            /\ pc' = "simulations"
            /\ mc' = MonteCarloLocals
    /\ UNCHANGED <<debtVars, portfolioVars, args, threads, rng>>

\* for _ in range(num_simulations): the next path starts.
NextSimulation ==
    /\ pc = "simulations"
    /\ mc.simulation < args.num_simulations
    /\ mc' = StartPath(mc, args)
    /\ pc' = "accumulation"
    /\ UNCHANGED <<readiness, result>>
    /\ UNCHANGED <<debtVars, portfolioVars, args, threads, rng>>

Accumulate ==
    /\ pc = "accumulation"
    /\ mc.year < args.years_until_retirement
    /\ \E draws \in Draws(0) :
          /\ Representable(mc.portfolio_value,
                           PortfolioGrowth(args.asset_allocation, draws))
          /\ mc' = AccumulationYear(mc, args, draws)
    /\ UNCHANGED <<pc, readiness, result>>
    /\ UNCHANGED <<debtVars, portfolioVars, args, threads, rng>>

Retire ==
    /\ pc = "accumulation"
    /\ mc.year = args.years_until_retirement
    /\ mc' = StartRetirement(mc, args)
    /\ pc' = "retirement"
    /\ UNCHANGED <<readiness, result>>
    /\ UNCHANGED <<debtVars, portfolioVars, args, threads, rng>>

Withdraw ==
    /\ pc = "retirement"
    /\ mc.year < retirement_years
    /\ Positive(mc.portfolio_value)
    /\ \E draws \in Draws(1) :
          /\ Representable(mc.portfolio_value,
                           PortfolioGrowth(args.asset_allocation, draws))
          /\ mc' = RetirementYear(mc, args, draws)
    /\ UNCHANGED <<pc, readiness, result>>
    /\ UNCHANGED <<debtVars, portfolioVars, args, threads, rng>>

\* The retirement loop is exhausted, or breaks on portfolio_value <= 0.
FinishPath ==
    /\ pc = "retirement"
    /\ mc.year = retirement_years \/ ~Positive(mc.portfolio_value)
    /\ mc' = EndPath(mc, args)
    /\ pc' = "simulations"
    /\ UNCHANGED <<readiness, result>>
    /\ UNCHANGED <<debtVars, portfolioVars, args, threads, rng>>

\* The for loop is exhausted: lines 156-178.
ReturnMonteCarlo ==
    /\ pc = "simulations"
    /\ mc.simulation = args.num_simulations
    /\ args.fn = "run_monte_carlo_simulation"
    /\ result' = MonteCarloResult(mc, args)
    /\ pc' = (IF args.num_simulations = 0 THEN "raised" ELSE "returned")
    /\ UNCHANGED <<mc, readiness>>
    /\ UNCHANGED <<debtVars, portfolioVars, args, threads, rng>>

\* The Monte Carlo call of line 240 returns: lines 248-263.
ReturnReadiness ==
    /\ pc = "simulations"
    /\ mc.simulation = args.num_simulations
    /\ args.fn = "calculate_retirement_readiness"
    /\ result' = ReadinessResult(args, readiness, MonteCarloResult(mc, args))
    /\ pc' = "returned"
    /\ UNCHANGED <<mc, readiness>>
    /\ UNCHANGED <<debtVars, portfolioVars, args, threads, rng>>

NextRetirement ==
    \/ ReadinessProjection
    \/ NextSimulation
    \/ Accumulate
    \/ Retire
    \/ Withdraw
    \/ FinishPath
    \/ ReturnMonteCarlo
    \/ ReturnReadiness

SpecRetirement == InitRetirement /\ [][NextRetirement]_vars

-----------------------------------------------------------------------------
(* Claims about retirement readiness and the Monte Carlo simulation.       *)

ReadinessCall == args.fn = "calculate_retirement_readiness"

\* C11: calculate_retirement_readiness with years_until_retirement = 0
\* returns a result without raising: the compounding loop runs 0 times,
\* expected_value_at_retirement equals current_value, and the
\* required-contribution computation does not divide by zero.
C11_ZeroYearsReturns ==
    (ReadinessCall /\ args.years_until_retirement = 0 /\ pc # "readiness") =>
        /\ readiness.expected_value_at_retirement = Frac(args.current_value, 1)
        /\ ~Raised(readiness.required_contribution)
        /\ pc # "raised"

\* C17: in every retirement-readiness result, income_gap is
\* target_annual_income - (portfolio_income + social_security_benefit
\* + pension_income), and on_track is true exactly when income_gap <= 0.
C17_IncomeGap ==
    (ReadinessCall /\ pc = "returned") =>
        LET income == Frac(result.portfolio_income.num
                             + (result.social_security_benefit + result.pension_income)
                                 * result.portfolio_income.den,
                           result.portfolio_income.den)
        IN  /\ FracEq(result.income_gap,
                      Frac(result.target_annual_income * income.den - income.num,
                           income.den))
            /\ result.on_track <=> ~FracLess(Frac(0, 1), result.income_gap)
            /\ result.on_track <=> ~FracLess(income, Frac(result.target_annual_income, 1))

\* A target met exactly by the Social Security benefit: the gap is 0.
C17_Witness ==
    /\ ReadinessCall
    /\ pc = "returned"
    /\ result.target_annual_income = 1
    /\ result.social_security_benefit = 1
    /\ result.income_gap.num = 0
    /\ result.on_track

\* The completed paths that made all the withdrawals and never found the
\* value <= 0, at the start of the retirement phase or after a withdrawal.
Sustained(loc) ==
    {i \in 1..Len(loc.paths) :
        loc.paths[i].withdrawals = retirement_years /\ ~loc.paths[i].depleted}

\* C18: a path is counted as successful exactly when the portfolio value is
\* still > 0 after each of the 30 withdrawals (years lasted = 30), never
\* when it starts the retirement phase or ends a year with a value <= 0;
\* success_rate is successful paths / N * 100 (to one decimal) in [0, 100].
C18_SuccessCounting ==
    (args.fn = "run_monte_carlo_simulation" /\ pc # "raised") =>
        /\ \A i \in 1..Len(mc.paths) :
              /\ mc.years_lasted[i] = retirement_years <=> i \in Sustained(mc)
              /\ mc.years_lasted[i] <= retirement_years
        /\ mc.successful_scenarios = Cardinality(Sustained(mc))
        /\ pc = "returned" =>
              /\ result.success_rate.den = 10
              /\ 2 * (result.success_rate.num * args.num_simulations
                        - mc.successful_scenarios * 1000) <= args.num_simulations
              /\ 2 * (mc.successful_scenarios * 1000
                        - result.success_rate.num * args.num_simulations)
                    <= args.num_simulations
              /\ result.success_rate.num >= 0
              /\ result.success_rate.num <= 1000

\* Two paths: one sustains the 30 withdrawals, the other is depleted by the
\* last of them; the rate is 50.0.
C18_Witness ==
    /\ args.fn = "run_monte_carlo_simulation"
    /\ pc = "returned"
    /\ args.num_simulations = 2
    /\ args.target_annual_income > 0
    /\ Cardinality(Sustained(mc)) = 1
    /\ \E i \in 1..2 : mc.paths[i].withdrawals = retirement_years /\ mc.paths[i].depleted
    /\ result.success_rate = Frac(500, 10)

\* round(x, 2) of a fraction x >= 0.
RoundedToCents(x) == Frac(RoundHalfEven(x.num * 100, x.den), 100)

\* C24: for the same current_value, years_until_retirement, allocation and
\* annual_contribution, expected_value_at_retirement of
\* calculate_retirement_readiness is the deterministic value computed inside
\* run_monte_carlo_simulation before its rounding to cents, and neither
\* depends on the draws: whatever the paths drew, both are what the
\* arguments alone determine.
C24_SameExpectedValue ==
    /\ (ReadinessCall /\ readiness # None) =>
          FracEq(readiness.expected_value_at_retirement, MonteCarloExpectedValue(args))
    /\ (ReadinessCall /\ pc = "returned") =>
          /\ FracEq(result.expected_value_at_retirement, MonteCarloExpectedValue(args))
          /\ RoundedToCents(result.expected_value_at_retirement)
                = MonteCarloResult(mc, args).expected_value_at_retirement
    /\ (~ReadinessCall /\ pc = "returned") =>
          result.expected_value_at_retirement
              = RoundedToCents(ExpectedValue(args.current_value,
                                             args.years_until_retirement,
                                             ExpectedReturn(args.asset_allocation),
                                             args.annual_contribution))

\* A readiness result for bonds held a year with a contribution: 5.16.
C24_Witness ==
    /\ ReadinessCall
    /\ pc = "returned"
    /\ args.asset_allocation = Weights(0, 1)
    /\ args.current_value = MaxValue
    /\ args.years_until_retirement = 1
    /\ args.annual_contribution = 1
    /\ mc.simulation = 1
    /\ FracEq(result.expected_value_at_retirement, Frac(MaxValue * 104 + 100, 100))

-----------------------------------------------------------------------------
(* Two one-path calls of run_monte_carlo_simulation that differ in         *)
(* current_value only and are given the same draws year by year.           *)

\* The calls compared: the second starts from at least as much.
Pairs ==
    {<<a, b>> \in MonteCarloCalls \X MonteCarloCalls :
        /\ a.num_simulations = 1
        /\ a.current_value <= b.current_value
        /\ b = [a EXCEPT !.current_value = b.current_value]}

InitPaired ==
    /\ \E pair \in Pairs :
          threads = [t \in 1..2 |->
                        [args |-> pair[t],
                         mc |-> StartPath(MonteCarloLocals, pair[t]),
                         result |-> None]]
    /\ pc = "paired_accumulation"
    /\ args = None
    /\ result = None
    /\ readiness = None
    /\ mc = None
    /\ rng = 0
    /\ EnginesIdle

\* The retirement loop of call t goes on.
Alive(t) ==
    /\ threads[t].mc.year < retirement_years
    /\ Positive(threads[t].mc.portfolio_value)

PairedAccumulate ==
    /\ pc = "paired_accumulation"
    /\ threads[1].mc.year < threads[1].args.years_until_retirement
    /\ \E draws \in Draws(0) :
          /\ \A t \in 1..2 :
                Representable(threads[t].mc.portfolio_value,
                              PortfolioGrowth(threads[t].args.asset_allocation, draws))
          /\ threads' = [t \in 1..2 |->
                            [threads[t] EXCEPT
                                !.mc = AccumulationYear(@, threads[t].args, draws)]]
    /\ UNCHANGED pc
    /\ UNCHANGED <<debtVars, portfolioVars, args, result, readiness, mc, rng>>

PairedRetire ==
    /\ pc = "paired_accumulation"
    /\ threads[1].mc.year = threads[1].args.years_until_retirement
    /\ threads' = [t \in 1..2 |->
                      [threads[t] EXCEPT !.mc = StartRetirement(@, threads[t].args)]]
    /\ pc' = "paired_retirement"
    /\ UNCHANGED <<debtVars, portfolioVars, args, result, readiness, mc, rng>>

PairedWithdraw ==
    /\ pc = "paired_retirement"
    /\ \E t \in 1..2 : Alive(t)
    /\ \E draws \in Draws(1) :
          /\ \A t \in 1..2 :
                Alive(t) =>
                    Representable(threads[t].mc.portfolio_value,
                                  PortfolioGrowth(threads[t].args.asset_allocation, draws))
          /\ threads' = [t \in 1..2 |->
                            IF Alive(t)
                            THEN [threads[t] EXCEPT
                                     !.mc = RetirementYear(@, threads[t].args, draws)]
                            ELSE threads[t]]
    /\ UNCHANGED pc
    /\ UNCHANGED <<debtVars, portfolioVars, args, result, readiness, mc, rng>>

PairedReturn ==
    /\ pc = "paired_retirement"
    /\ \A t \in 1..2 : ~Alive(t)
    /\ threads' = [t \in 1..2 |->
                      [threads[t] EXCEPT
                          !.mc = EndPath(@, threads[t].args),
                          !.result = MonteCarloResult(EndPath(threads[t].mc, threads[t].args),
                                                      threads[t].args)]]
    /\ pc' = "paired_returned"
    /\ UNCHANGED <<debtVars, portfolioVars, args, result, readiness, mc, rng>>

NextPaired ==
    \/ PairedAccumulate
    \/ PairedRetire
    \/ PairedWithdraw
    \/ PairedReturn

SpecPaired == InitPaired /\ [][NextPaired]_vars

\* C19: with years, target income, allocation, contribution and the drawn
\* returns fixed, a path that succeeds from current_value v also succeeds
\* from every v' >= v, so success_rate is non-decreasing in current_value.
C19_MonotoneInValue ==
    pc = "paired_returned" =>
        /\ threads[1].mc.successful_scenarios <= threads[2].mc.successful_scenarios
        /\ ~FracLess(threads[2].result.success_rate, threads[1].result.success_rate)

-----------------------------------------------------------------------------
(* Two concurrent calls of run_monte_carlo_simulation.  random.gauss draws *)
(* from the one generator of the random module: rng is its state, the      *)
(* position in the sequence of values its seed determines, and every call  *)
(* of random.gauss by either thread advances it.                           *)

\* The growths 1 + random.gauss(0.07, 0.18) of the successive generator
\* states, in quarters; the sequence is followed cyclically.
GaussStream == <<4, 0, 0>>

\* random.gauss at generator state position.
Gauss(position) == GaussStream[(position % Len(GaussStream)) + 1]

\* The three draws of a year taken in a row from generator state position.
DrawsAt(position) ==
    [equity_return |-> Gauss(position), bond_return |-> Gauss(position + 1),
     real_estate_return |-> Gauss(position + 2), inflation |-> 0]

\* One path of a call that runs alone from generator state position: the
\* locals after the path and the generator state it leaves.
RECURSIVE SoloPath(_, _, _, _)
SoloPath(loc, a, phase, position) ==
    IF phase = "accumulation"
    THEN IF loc.year < a.years_until_retirement
         THEN SoloPath(AccumulationYear(loc, a, DrawsAt(position)), a,
                       "accumulation", position + 3)
         ELSE SoloPath(StartRetirement(loc, a), a, "retirement", position)
    ELSE IF loc.year < retirement_years /\ Positive(loc.portfolio_value)
         THEN SoloPath(RetirementYear(loc, a, DrawsAt(position)), a,
                       "retirement", position + 3)
         ELSE [mc |-> EndPath(loc, a), rng |-> position]

\* The result of a call that runs alone from generator state position.
RECURSIVE SoloRun(_, _, _)
SoloRun(loc, a, position) ==
    IF loc.simulation < a.num_simulations
    THEN LET path == SoloPath(StartPath(loc, a), a, "accumulation", position)
         IN  SoloRun(path.mc, a, path.rng)
    ELSE MonteCarloResult(loc, a)

\* All-equity calls that withdraw nothing: the paths depend on the equity
\* draws alone and stay exact whatever the inflation.
ConcurrentCalls ==
    {a \in MonteCarloCalls :
        /\ a.asset_allocation = Weights(1, 0)
        /\ a.target_annual_income = 0
        /\ a.annual_contribution = 0
        /\ a.current_value = 1
        /\ a.num_simulations = 1}

InitConcurrent ==
    /\ threads \in [1..2 -> [pc : {"idle"}, args : ConcurrentCalls, mc : {MonteCarloLocals},
                             drawn : {<<>>}, entry : {0}, result : {None}]]
    /\ rng \in 0..(Len(GaussStream) - 1)
    /\ pc = "concurrent"
    /\ args = None
    /\ result = None
    /\ readiness = None
    /\ mc = None
    /\ EnginesIdle

\* Thread t enters run_monte_carlo_simulation; entry notes the generator
\* state it finds.
Call(t) ==
    /\ threads[t].pc = "idle"
    /\ threads' = [threads EXCEPT ![t].pc = "simulations", ![t].entry = rng]
    /\ UNCHANGED rng
    /\ UNCHANGED <<pc, debtVars, portfolioVars, args, result, readiness, mc>>

ThreadNextSimulation(t) ==
    /\ threads[t].pc = "simulations"
    /\ threads[t].mc.simulation < threads[t].args.num_simulations
    /\ threads' = [threads EXCEPT ![t].mc = StartPath(@, threads[t].args),
                                  ![t].pc = "accumulation"]
    /\ UNCHANGED rng
    /\ UNCHANGED <<pc, debtVars, portfolioVars, args, result, readiness, mc>>

\* The year under way of thread t goes on: its loop condition holds.
InYear(t) ==
    \/ /\ threads[t].pc = "accumulation"
       /\ threads[t].mc.year < threads[t].args.years_until_retirement
    \/ /\ threads[t].pc = "retirement"
       /\ threads[t].mc.year < retirement_years
       /\ Positive(threads[t].mc.portfolio_value)

\* Thread t calls random.gauss; the third draw of a year completes the
\* iteration (lines 107-119 and 133-147).
ThreadGauss(t) ==
    /\ InYear(t)
    /\ rng' = (rng + 1) % Len(GaussStream)
    /\ IF Len(threads[t].drawn) < 2
       THEN threads' = [threads EXCEPT ![t].drawn = Append(@, Gauss(rng))]
       ELSE LET draws == [equity_return |-> threads[t].drawn[1],
                          bond_return |-> threads[t].drawn[2],
                          real_estate_return |-> Gauss(rng),
                          inflation |-> 0]
            IN  threads' =
                    [threads EXCEPT
                        ![t].drawn = <<>>,
                        ![t].mc = IF threads[t].pc = "accumulation"
                                  THEN AccumulationYear(@, threads[t].args, draws)
                                  ELSE RetirementYear(@, threads[t].args, draws)]
    /\ UNCHANGED <<pc, debtVars, portfolioVars, args, result, readiness, mc>>

ThreadRetire(t) ==
    /\ threads[t].pc = "accumulation"
    /\ threads[t].mc.year = threads[t].args.years_until_retirement
    /\ threads' = [threads EXCEPT ![t].mc = StartRetirement(@, threads[t].args),
                                  ![t].pc = "retirement"]
    /\ UNCHANGED rng
    /\ UNCHANGED <<pc, debtVars, portfolioVars, args, result, readiness, mc>>

ThreadFinishPath(t) ==
    /\ threads[t].pc = "retirement"
    /\ ~InYear(t)
    /\ threads' = [threads EXCEPT ![t].mc = EndPath(@, threads[t].args),
                                  ![t].pc = "simulations"]
    /\ UNCHANGED rng
    /\ UNCHANGED <<pc, debtVars, portfolioVars, args, result, readiness, mc>>

ThreadReturn(t) ==
    /\ threads[t].pc = "simulations"
    /\ threads[t].mc.simulation = threads[t].args.num_simulations
    /\ threads' = [threads EXCEPT
                      ![t].result = MonteCarloResult(threads[t].mc, threads[t].args),
                      ![t].pc = "returned"]
    /\ UNCHANGED rng
    /\ UNCHANGED <<pc, debtVars, portfolioVars, args, result, readiness, mc>>

NextConcurrent ==
    \E t \in 1..2 :
        \/ Call(t)
        \/ ThreadNextSimulation(t)
        \/ ThreadGauss(t)
        \/ ThreadRetire(t)
        \/ ThreadFinishPath(t)
        \/ ThreadReturn(t)

SpecConcurrent == InitConcurrent /\ [][NextConcurrent]_vars

\* C20: concurrent invocations of the simulation core share no mutable
\* state: under every interleaving of two concurrent calls (two Monte Carlo
\* runs included) each call reads and writes its own inputs and locals only,
\* so its result is the result it has when it runs alone.
C20_NoInterference ==
    \A t \in 1..2 :
        threads[t].pc = "returned" =>
            threads[t].result = SoloRun(MonteCarloLocals, threads[t].args, threads[t].entry)

=============================================================================
